---- MODULE Spec2Model ----
(***************************************************************************)
(* Verification model of dasa: the notebook analysis engine (cell parser,  *)
(* dependency graph, state analyzer), the execution journal                *)
(* (.dasa/state.json) and the `check`, `run` and `edit` commands.          *)
(*                                                                         *)
(* Cell indices are 0-based as in the Python code; a notebook is a TLA+    *)
(* sequence, so the cell with index i is cells[i + 1].                     *)
(* An optional value (Python None) is the empty sequence << >>; a set      *)
(* value v is the one-element sequence <<v>>.                              *)
(***************************************************************************)
EXTENDS Integers, Sequences, FiniteSets, TLC

VARIABLES
    fmt,        \* notebook format, from the file suffix: "ipynb" or "py"
    cells,      \* the notebook file: sequence of cells in source order
    stateFile,  \* .dasa/state.json: "missing", "corrupt", or the journal dict
    recorded,   \* history: <<key, index>> pairs for which update_cell returned
    graph,      \* DependencyGraph.nodes returned by the last build_graph
    query,      \* result of the last get_upstream / get_downstream call
    report,     \* StateAnalysis returned by the last analyze call
    res,        \* results of the last journal reads
    lastCmd,    \* the operation that ran last
    exit_code,  \* exit code of the last CLI command
    ran,        \* history: <<index, source>> of the cells `run` executed successfully
    log,        \* .dasa/log: the decision log entries, oldest first
    rd,         \* outcome of the last journal read: value, warnings, raised
    target,     \* the persistence writer whose calls are followed
    file,       \* content of that writer's destination file
    tmps,       \* number of temporary sibling files in its directory
    wpc,        \* position of the writer inside the call in progress
    wcall,      \* the call in progress or last ended: contents, outcome
    seen,       \* what the last concurrent reader of the destination read
    proc,       \* the kernel subprocess: "none", "alive" or "dead"
    mgr,        \* KernelManager fields: whether _km and _kc are set
    published,  \* every message the kernel published on iopub, oldest first
    rdpos,      \* number of iopub messages the client has taken
    busy,       \* kernel side: ids submitted that have not reached idle
    ex,         \* the execute call in progress: msg_id, collected parts, timers
    xres,       \* what the last execute call gave back to its caller
    subs,       \* history: the submissions made, oldest first
    interrupts, \* history: number of interrupt() calls
    cmd,        \* the command that owns the session: name, position, targets
    jobs,       \* .dasa/jobs: the stored record of each job id, oldest first
    live,       \* the pids of the OS processes that exist
    jres,       \* what the last JobManager call gave back to its caller
    raw,        \* MarimoAdapter._raw_content: the cell sources of the text
    disk,       \* the notebook file: the cells (or cell sources) last saved
    ares,       \* the last notebook operation: arguments, error, state before
    ctxFile,    \* .dasa/context.yaml: None, or the YAML document it holds
    cres,       \* the last ContextManager call: what was written, what was read
    logFile,    \* .dasa/log: its lines, oldest first
    lres,       \* the last SessionLog call: arguments, lines before, answer
    pend,       \* per process: the update_cell call between its load and save
    jrec,       \* ~/.dasa/jobs/<id>.json of one job: None, or the record
    launcher,   \* the process in _run_async: position and its job_data
    runner,     \* the process in run_cells: position, the record it read
    canceller,  \* the process in cancel: position and its job_data
    fixed       \* the last `check --fix`: its repair targets and results

coreVars == <<fmt, cells, stateFile, recorded, graph, query, report, res,
              lastCmd, exit_code, ran, log>>
readVars == <<rd>>
fileVars == <<target, file, tmps, wpc, wcall, seen>>
kernelVars == <<proc, mgr, published, rdpos, busy, ex, xres, subs, interrupts>>
sessionVars == <<cmd>>
jobVars == <<jobs, live, jres>>
adapterVars == <<raw, disk, ares>>
storeVars == <<ctxFile, cres, logFile, lres>>
raceVars == <<pend, jrec, launcher, runner, canceller>>
fixVars == <<fixed>>

\* the variables outside the analysis engine, the journal content and the
\* commands check / run / edit
extVars == <<readVars, fileVars, kernelVars, sessionVars, jobVars,
            adapterVars, storeVars, raceVars, fixVars>>

\* what the operations of one part leave alone
nonReadVars == <<coreVars, fileVars, kernelVars, sessionVars, jobVars,
                 adapterVars, storeVars, raceVars, fixVars>>
nonFileVars == <<coreVars, readVars, kernelVars, sessionVars, jobVars,
                 adapterVars, storeVars, raceVars, fixVars>>
nonKernelVars == <<coreVars, readVars, fileVars, sessionVars, jobVars,
                   adapterVars, storeVars, raceVars, fixVars>>
nonSessionVars == <<coreVars, readVars, fileVars, jobVars, adapterVars,
                    storeVars, raceVars, fixVars>>
nonJobVars == <<coreVars, readVars, fileVars, kernelVars, sessionVars,
                adapterVars, storeVars, raceVars, fixVars>>
nonAdapterVars == <<fmt, stateFile, recorded, graph, query, report, res,
                    lastCmd, exit_code, ran, log,
                    readVars, fileVars, kernelVars, sessionVars, jobVars,
                    storeVars, raceVars, fixVars>>
nonStoreVars == <<coreVars, readVars, fileVars, kernelVars, sessionVars,
                  jobVars, adapterVars, raceVars, fixVars>>
extButRaceVars == <<readVars, fileVars, kernelVars, sessionVars, jobVars,
                    adapterVars, storeVars, fixVars>>
extButFixVars == <<readVars, fileVars, kernelVars, sessionVars, jobVars,
                   adapterVars, storeVars, raceVars>>

vars == <<coreVars, extVars>>

(***************************************************************************)
(* Bounds                                                                  *)
(***************************************************************************)
MaxCells == 3      \* longest notebook drawn for the dependency analysis
MaxNbCells == 2    \* longest notebook drawn for the state analysis
MaxCmdCells == 1   \* longest notebook drawn for the commands
MaxCount == 2      \* largest execution counter drawn
MaxIndex == 1      \* largest cell index used with the journal operations
MaxLog == 1        \* decision log entries after which no further entry is modelled
MaxStaleCells == 2 \* longest cell list given to get_stale_cells
MaxCalls == 2      \* calls of one persistence writer that are followed
MaxMsgs == 3       \* iopub messages published in one session
MaxSubs == 2       \* submissions made in one session
MaxClock == 2
MaxJobs == 2
MaxPid == 2
MaxOps == 1
MaxLines == 2      \* time units a waiting execute call is followed for

None == << >>
Some(v) == <<v>>

(***************************************************************************)
(* Cell sources.  A source text is represented by what the parser can see  *)
(* in it: whether it parses, the names it stores, the names it loads, and  *)
(* a literal that distinguishes texts with the same names ("x = 1" vs      *)
(* "x = 999").                                                             *)
(***************************************************************************)
Src(ok, stores, loads, lit) ==
    [ok |-> ok, stores |-> stores, loads |-> loads, lit |-> lit]

SrcX1    == Src(TRUE, {"x"}, {}, 1)                     \* x = 1
SrcX999  == Src(TRUE, {"x"}, {}, 999)                   \* x = 999
SrcXY    == Src(TRUE, {"x", "y"}, {}, 1)                \* x, y = 1, 2
SrcYofX  == Src(TRUE, {"y"}, {"x"}, 1)                  \* y = x + 1
SrcXofY  == Src(TRUE, {"x"}, {"y"}, 2)                  \* x = y * 2
SrcPrint == Src(TRUE, {}, {"x", "y", "print"}, 0)       \* print(x + y)
SrcPrX   == Src(TRUE, {}, {"x", "print"}, 0)            \* print(x)
SrcInc   == Src(TRUE, {"x"}, {"x"}, 1)                  \* x = x + 1
SrcBad   == Src(FALSE, {"y"}, {"x"}, 0)                 \* y = (x      (syntax error)
SrcNote  == Src(FALSE, {}, {}, 0)                       \* # Notes     (markdown text)

DepSources == {SrcX1, SrcXY, SrcYofX, SrcXofY, SrcPrint, SrcInc, SrcBad}
NbSources  == {SrcX1, SrcX999, SrcPrX}
AllSources == DepSources \cup NbSources

builtin_names == {"print", "len", "range"}

(***************************************************************************)
(* parse_cell: definitions are the stored names; references are the loaded *)
(* names minus builtins minus the cell's own definitions; a source that    *)
(* does not parse yields the empty analysis.                               *)
(***************************************************************************)
parse_cell(source) ==
    IF ~source.ok
    THEN [definitions |-> {}, references |-> {}]
    ELSE [definitions |-> source.stores,
          references  |-> (source.loads \ builtin_names) \ source.stores]

(***************************************************************************)
(* Notebook adapters                                                       *)
(***************************************************************************)
NewCell(cell_type, source, execution_count) ==
    [cell_type |-> cell_type, source |-> source,
     execution_count |-> execution_count]

\* NotebookAdapter.cells: Cell objects, index from enumerate().  A Marimo
\* cell is always a code cell without execution_count.
Cells(f, cs) ==
    [i \in 1..Len(cs) |->
        [index |-> i - 1,
         cell_type |-> IF f = "py" THEN "code" ELSE cs[i].cell_type,
         source |-> cs[i].source,
         execution_count |-> IF f = "py" THEN None ELSE cs[i].execution_count]]

is_code(c) == c.cell_type = "code"

code_cells(f, cs) == SelectSeq(Cells(f, cs), is_code)

Range(s) == {s[i] : i \in 1..Len(s)}

\* sorted(set of integers)
RECURSIVE sorted(_)
sorted(S) ==
    IF S = {} THEN << >>
    ELSE LET m == CHOOSE a \in S : \A b \in S : a <= b
         IN <<m>> \o sorted(S \ {m})

(***************************************************************************)
(* Dependency graph (analysis/deps.py)                                     *)
(***************************************************************************)
\* A node as build_graph first creates it (the display label is not modelled:
\* no operation reads it back).
CellNode(index, analysis) ==
    [index |-> index,
     definitions |-> analysis.definitions,
     references |-> analysis.references,
     upstream |-> {}, downstream |-> {}]

\* First loop of build_graph: parse every code cell into graph.nodes.
ParseAll(cc) ==
    [idx \in {cc[k].index : k \in 1..Len(cc)} |->
        LET c == CHOOSE c \in Range(cc) : c.index = idx
        IN CellNode(idx, parse_cell(c.source))]

\* Mutation of AddEdges: the edge is stored in the wrong direction.
AddEdgesReversed(nodes, var_to_cell, idx) ==
    LET defs == {var_to_cell[r] :
                    r \in {r \in nodes[idx].references :
                             r \in DOMAIN var_to_cell /\ var_to_cell[r] # idx}}
    IN [n \in DOMAIN nodes |->
          IF n = idx THEN [nodes[n] EXCEPT !.downstream = @ \cup defs]
          ELSE IF n \in defs THEN [nodes[n] EXCEPT !.upstream = @ \cup {idx}]
          ELSE nodes[n]]

\* "for ref in node.references": add the edge var_to_cell[ref] -> idx.
AddEdges(nodes, var_to_cell, idx) ==
    LET defs == {var_to_cell[r] :
                    r \in {r \in nodes[idx].references :
                             r \in DOMAIN var_to_cell /\ var_to_cell[r] # idx}}
    IN [n \in DOMAIN nodes |->
          IF n = idx THEN [nodes[n] EXCEPT !.upstream = @ \cup defs]
          ELSE IF n \in defs THEN [nodes[n] EXCEPT !.downstream = @ \cup {idx}]
          ELSE nodes[n]]

\* Mutation of RecordDefinitions: an earlier definition is not overwritten.
RecordDefinitionsFirst(var_to_cell, node) ==
    [d \in DOMAIN var_to_cell \cup node.definitions |->
        IF d \in DOMAIN var_to_cell THEN var_to_cell[d] ELSE node.index]

\* "for defn in node.definitions: var_to_cell[defn] = cell.index".
RecordDefinitions(var_to_cell, node) ==
    [d \in DOMAIN var_to_cell \cup node.definitions |->
        IF d \in node.definitions THEN node.index ELSE var_to_cell[d]]

\* Second loop of build_graph over code_cells[k..].
RECURSIVE EdgeLoop(_, _, _, _)
EdgeLoop(cc, k, nodes, var_to_cell) ==
    IF k > Len(cc) THEN nodes
    ELSE LET idx == cc[k].index
             n1  == AddEdges(nodes, var_to_cell, idx)
         IN EdgeLoop(cc, k + 1, n1, RecordDefinitions(var_to_cell, n1[idx]))

build_graph(f, cs) ==
    LET cc == code_cells(f, cs)
    IN EdgeLoop(cc, 1, ParseAll(cc), << >>)

\* DependencyGraph._walk_upstream: depth-first walk threading `visited`.
RECURSIVE _walk_upstream(_, _, _)
RECURSIVE walk_upstream_each(_, _, _)
_walk_upstream(g, cell_index, visited) ==
    IF cell_index \in visited THEN visited
    ELSE IF cell_index \in DOMAIN g
         THEN walk_upstream_each(g, g[cell_index].upstream,
                                 visited \cup {cell_index})
         ELSE visited \cup {cell_index}

walk_upstream_each(g, S, visited) ==
    IF S = {} THEN visited
    ELSE LET up == CHOOSE up \in S : TRUE
         IN walk_upstream_each(g, S \ {up}, _walk_upstream(g, up, visited))

\* DependencyGraph._walk_downstream.
RECURSIVE _walk_downstream(_, _, _)
RECURSIVE walk_downstream_each(_, _, _)
_walk_downstream(g, cell_index, visited) ==
    IF cell_index \in visited THEN visited
    ELSE IF cell_index \in DOMAIN g
         THEN walk_downstream_each(g, g[cell_index].downstream,
                                   visited \cup {cell_index})
         ELSE visited \cup {cell_index}

walk_downstream_each(g, S, visited) ==
    IF S = {} THEN visited
    ELSE LET down == CHOOSE down \in S : TRUE
         IN walk_downstream_each(g, S \ {down}, _walk_downstream(g, down, visited))

\* Mutation of get_upstream: only the direct upstream cells are returned.
get_upstream_direct(g, cell_index) ==
    sorted((IF cell_index \in DOMAIN g THEN g[cell_index].upstream ELSE {})
             \ {cell_index})

get_upstream(g, cell_index) ==
    sorted(_walk_upstream(g, cell_index, {}) \ {cell_index})

get_downstream(g, cell_index) ==
    sorted(_walk_downstream(g, cell_index, {}) \ {cell_index})

(***************************************************************************)
(* Execution journal (session/state.py)                                    *)
(*                                                                         *)
(* A path is its sequence of components; the journal file is a record      *)
(* [status, data] where data is the JSON object                            *)
(* key -> [cells |-> index_str -> [code_hash |-> digest]].                 *)
(* The last_run timestamp of an entry is written but never read by any     *)
(* operation and is not modelled.                                          *)
(***************************************************************************)
Cwd == <<"/", "work">>

NbPath    == <<"nb.ipynb">>
NbPathDot == <<".", "nb.ipynb">>
OtherPath == <<"other.ipynb">>
RawPaths  == {NbPath, NbPathDot, OtherPath}

\* Path(path).resolve(): make absolute against the working directory and
\* drop "." components.
_normalize_path(path) ==
    LET abs == IF Len(path) > 0 /\ path[1] = "/" THEN path ELSE Cwd \o path
        NotDot(c) == c # "."
    IN SelectSeq(abs, NotDot)

\* Mutation of sha256_12: the digest ignores the literals in the text.
sha256_12_names(source) ==
    [sha256_12 |-> <<source.ok, source.stores, source.loads>>]

\* hashlib.sha256(source.encode()).hexdigest()[:12].  The digest is taken to
\* be collision-free on the sources of the model.
sha256_12(source) ==
    [sha256_12 |-> <<source.ok, source.stores, source.loads, source.lit>>]

EmptyDict == << >>
MissingFile == [status |-> "missing", data |-> EmptyDict]
CorruptFile == [status |-> "corrupt", data |-> EmptyDict]
\* a file holding valid JSON that is not an object, such as [] : json.load
\* returns it without complaint and it is not a dict
NotObjectFile == [status |-> "not_object", data |-> EmptyDict]

\* dict[k] = v
Put(d, k, v) == [x \in DOMAIN d \cup {k} |-> IF x = k THEN v ELSE d[x]]

\* StateTracker._load: {} on a missing or corrupted file.
_load(sf) == IF sf.status = "ok" THEN sf.data ELSE EmptyDict

\* the warnings one _load prints to stderr: one in the except branch, none
\* when the file does not exist
_load_warnings(sf) == IF sf.status = "corrupt" THEN 1 ELSE 0

\* whether the value _load returns is a dict; state.get(...) and
\* state[key] = ... raise on any other JSON value
_load_is_dict(sf) == sf.status # "not_object"

\* StateTracker._save: the file holds the new state.
_save(state) == [status |-> "ok", data |-> state]

\* StateTracker.update_cell; the value is the resulting journal file.
update_cell(sf, notebook, cell_index, source) ==
    LET state == _load(sf)
        key   == _normalize_path(notebook)
        s1    == IF key \notin DOMAIN state
                 THEN Put(state, key, [cells |-> EmptyDict])
                 ELSE state
        entry == [code_hash |-> sha256_12(source)]
        s2    == [s1 EXCEPT ![key].cells = Put(@, ToString(cell_index), entry)]
    IN _save(s2)

\* state.get(key, {}).get("cells", {})
nb_state(sf, notebook) ==
    LET state == _load(sf)
        key   == _normalize_path(notebook)
    IN IF key \in DOMAIN state THEN state[key].cells ELSE EmptyDict

is_stale(sf, notebook, cell_index, current_source) ==
    LET nbs == nb_state(sf, notebook)
    IN IF ToString(cell_index) \notin DOMAIN nbs
       THEN TRUE
       ELSE nbs[ToString(cell_index)].code_hash # sha256_12(current_source)

was_executed(sf, notebook, cell_index) ==
    ToString(cell_index) \in DOMAIN nb_state(sf, notebook)

\* Mutation of was_executed_current: the staleness test is dropped.
was_executed_any(sf, notebook, cell_index, current_source) ==
    was_executed(sf, notebook, cell_index)

was_executed_current(sf, notebook, cell_index, current_source) ==
    was_executed(sf, notebook, cell_index)
        /\ ~is_stale(sf, notebook, cell_index, current_source)

(***************************************************************************)
(* The journal reads as calls: the value returned, the number of warnings  *)
(* printed to stderr during the call, and whether the call raised.         *)
(***************************************************************************)
Outcome(value, warnings, raised) ==
    [value |-> value, warnings |-> warnings, raised |-> raised]

is_stale_call(sf, notebook, cell_index, current_source) ==
    IF _load_is_dict(sf)
    THEN Outcome(Some(is_stale(sf, notebook, cell_index, current_source)),
                 _load_warnings(sf), FALSE)
    ELSE Outcome(None, _load_warnings(sf), TRUE)

was_executed_call(sf, notebook, cell_index) ==
    IF _load_is_dict(sf)
    THEN Outcome(Some(was_executed(sf, notebook, cell_index)),
                 _load_warnings(sf), FALSE)
    ELSE Outcome(None, _load_warnings(sf), TRUE)

\* `and` evaluates is_stale only when was_executed answered True
was_executed_current_call(sf, notebook, cell_index, current_source) ==
    LET e == was_executed_call(sf, notebook, cell_index)
        st == is_stale_call(sf, notebook, cell_index, current_source)
    IN IF e.raised THEN e
       ELSE IF ~e.value[1] THEN e
       ELSE IF st.raised THEN Outcome(None, e.warnings + st.warnings, TRUE)
       ELSE Outcome(Some(~st.value[1]), e.warnings + st.warnings, FALSE)

\* the list comprehension of get_stale_cells: one is_stale per (idx, source)
\* of cs, from position k on; the value is the list of stale indices
RECURSIVE get_stale_cells_from(_, _, _, _)
get_stale_cells_from(sf, notebook, cs, k) ==
    IF k > Len(cs) THEN Outcome(Some(<< >>), 0, FALSE)
    ELSE LET st == is_stale_call(sf, notebook, cs[k][1], cs[k][2])
             rest == get_stale_cells_from(sf, notebook, cs, k + 1)
         IN IF st.raised THEN st
            ELSE IF rest.raised
                 THEN Outcome(None, st.warnings + rest.warnings, TRUE)
            ELSE Outcome(Some(IF st.value[1] THEN <<cs[k][1]>> \o rest.value[1]
                                             ELSE rest.value[1]),
                         st.warnings + rest.warnings, FALSE)

get_stale_cells_call(sf, notebook, cs) == get_stale_cells_from(sf, notebook, cs, 1)

(***************************************************************************)
(* Execution order (notebook/jupyter.py, notebook/marimo.py)               *)
(***************************************************************************)
\* sorted(..., key=count) is stable: insert after every element whose key is
\* not larger.
RECURSIVE insert_by_count(_, _)
insert_by_count(s, item) ==
    IF s = << >> THEN <<item>>
    ELSE IF s[Len(s)].execution_count[1] <= item.execution_count[1]
         THEN Append(s, item)
         ELSE Append(insert_by_count(SubSeq(s, 1, Len(s) - 1), item), s[Len(s)])

RECURSIVE sorted_by_count(_)
sorted_by_count(s) ==
    IF s = << >> THEN << >>
    ELSE insert_by_count(sorted_by_count(SubSeq(s, 1, Len(s) - 1)), s[Len(s)])

Indices(s) == [k \in 1..Len(s) |-> s[k].index]

\* JupyterAdapter.execution_order
jupyter_execution_order(cs) ==
    LET HasCount(c) == c.cell_type = "code" /\ c.execution_count # None
        cells_with_count == SelectSeq(Cells("ipynb", cs), HasCount)
    IN Indices(sorted_by_count(cells_with_count))

\* MarimoAdapter._parse_cells: a cell's inputs are the parameters of its
\* function and its outputs the names it returns; marimo writes these as the
\* names the body reads from other cells and the names it defines.
marimo_inputs(source) == parse_cell(source).references
marimo_outputs(source) == parse_cell(source).definitions

\* MarimoAdapter.execution_order: topological order on inputs / outputs.
RECURSIVE marimo_order_loop(_, _, _, _)
marimo_order_loop(cs, remaining, provided, order) ==
    IF remaining = {} THEN order
    ELSE LET ready == {idx \in remaining :
                          marimo_inputs(cs[idx + 1].source) \subseteq provided}
         IN IF ready = {} THEN order \o sorted(remaining)
            ELSE marimo_order_loop(
                    cs, remaining \ ready,
                    provided \cup UNION {marimo_outputs(cs[idx + 1].source) :
                                            idx \in ready},
                    order \o sorted(ready))

marimo_execution_order(cs) ==
    marimo_order_loop(cs, {i - 1 : i \in 1..Len(cs)}, {}, << >>)

execution_order(f, cs) ==
    IF f = "py" THEN marimo_execution_order(cs) ELSE jupyter_execution_order(cs)

(***************************************************************************)
(* State analyzer (analysis/state.py)                                      *)
(***************************************************************************)
StateIssue(cell_index, severity, message) ==
    [cell_index |-> cell_index, severity |-> severity, message |-> message]

MsgUndefined(ref) == <<"uses undefined variable", ref>>
MsgNever == <<"never executed">>
MsgStale == <<"stale - code modified since last run">>
MsgOrder == <<"out-of-order execution detected">>

\* The elements of a set in iteration order (Python leaves the order of a
\* set unspecified; one order is fixed here).
RECURSIVE SetSeq(_)
SetSeq(S) ==
    IF S = {} THEN << >>
    ELSE LET e == CHOOSE e \in S : TRUE IN <<e>> \o SetSeq(S \ {e})

\* Mutation of undefined_in: the membership test is missing.
undefined_in_all(references, defined_vars) == SetSeq(references)

\* "for ref in analysis.references: if ref not in defined_vars"
undefined_in(references, defined_vars) ==
    SetSeq({ref \in references : ref \notin DOMAIN defined_vars})

\* First loop of analyze over code_cells[k..].
RECURSIVE UndefinedLoop(_, _, _, _, _)
UndefinedLoop(cc, k, defined_vars, undefined_refs, issues) ==
    IF k > Len(cc)
    THEN [defined_vars |-> defined_vars, undefined_refs |-> undefined_refs,
          issues |-> issues]
    ELSE LET cell == cc[k]
             analysis == parse_cell(cell.source)
             undef == undefined_in(analysis.references, defined_vars)
         IN UndefinedLoop(
               cc, k + 1,
               [d \in DOMAIN defined_vars \cup analysis.definitions |->
                   IF d \in analysis.definitions THEN cell.index
                   ELSE defined_vars[d]],
               undefined_refs \o [j \in 1..Len(undef) |-> <<cell.index, undef[j]>>],
               issues \o [j \in 1..Len(undef) |->
                            StateIssue(cell.index, "error", MsgUndefined(undef[j]))])

\* Mutation of _cell_was_executed: the journal is not consulted.
_cell_was_executed_count_only(cell, sf, state_tracker, notebook_path) ==
    cell.execution_count # None

_cell_was_executed(cell, sf, state_tracker, notebook_path) ==
    IF cell.execution_count # None THEN TRUE
    ELSE IF state_tracker /\ notebook_path # None
         THEN was_executed_current(sf, notebook_path[1], cell.index, cell.source)
         ELSE FALSE

\* StateAnalyzer.analyze.  notebook_path is None or Some(path); tracker_given
\* tells whether the caller passed a StateTracker (every tracker of the model
\* reads the same journal file sf).
analyze(f, cs, sf, notebook_path, tracker_given) ==
    LET cc == code_cells(f, cs)
        state_tracker == tracker_given \/ notebook_path # None
        first == UndefinedLoop(cc, 1, << >>, << >>, << >>)
        NotExecuted(c) == ~_cell_was_executed(c, sf, state_tracker, notebook_path)
        never == SelectSeq(cc, NotExecuted)
        IsStale(c) == /\ was_executed(sf, notebook_path[1], c.index)
                      /\ is_stale(sf, notebook_path[1], c.index, c.source)
        stale == IF state_tracker /\ notebook_path # None
                 THEN SelectSeq(cc, IsStale) ELSE << >>
        exec_order == execution_order(f, cs)
        HasCount(c) == c.execution_count # None
        correct_order == Indices(SelectSeq(cc, HasCount))
        order_issue == IF exec_order # << >> /\ exec_order # correct_order
                       THEN <<StateIssue(-1, "warning", MsgOrder)>> ELSE << >>
        issues == first.issues
                    \o [k \in 1..Len(never) |->
                          StateIssue(never[k].index, "warning", MsgNever)]
                    \o [k \in 1..Len(stale) |->
                          StateIssue(stale[k].index, "warning", MsgStale)]
                    \o order_issue
    IN [is_consistent |-> \A k \in 1..Len(issues) : issues[k].severity # "error",
        issues |-> issues,
        execution_order |-> exec_order,
        correct_order |-> correct_order,
        defined_vars |-> first.defined_vars,
        undefined_refs |-> first.undefined_refs]

(***************************************************************************)
(* Results of the last library call, and their "nothing returned" values.  *)
(* graph, query, report and res hold what the last call returned (query    *)
(* together with the graph it was asked of); the return values of earlier  *)
(* calls are dropped.                                                      *)
(***************************************************************************)
NoGraph == [built |-> FALSE, nodes |-> << >>]
NoQuery == [op |-> "none", cell |-> 0, result |-> << >>]
NoAnalysis ==
    [is_consistent |-> TRUE, issues |-> << >>, execution_order |-> << >>,
     correct_order |-> << >>, defined_vars |-> << >>, undefined_refs |-> << >>]
NoReport ==
    [called |-> FALSE, notebook_path |-> None, tracker_given |-> FALSE,
     analysis |-> NoAnalysis]
NoRes ==
    [op |-> "none", notebook |-> NbPath, cell_index |-> 0, source |-> None,
     stale |-> None, executed |-> None, current |-> None]

NoRead ==
    [op |-> "none", status |-> "missing", empty_answer |-> None,
     outcome |-> Outcome(None, 0, FALSE)]

JournalSources == {SrcX1, SrcX999}

\* the (path, index) arguments used with the journal operations
JournalArgs == ({NbPath, NbPathDot} \X (0..MaxIndex)) \cup {<<OtherPath, 0>>}

(***************************************************************************)
(* Library operations                                                      *)
(***************************************************************************)
\* DependencyAnalyzer.build_graph(adapter)
BuildGraph ==
    /\ graph' = [built |-> TRUE, nodes |-> build_graph(fmt, cells)]
    /\ query' = NoQuery /\ report' = NoReport /\ res' = NoRes
    /\ UNCHANGED <<fmt, cells, stateFile, recorded, lastCmd, exit_code, ran, log>>
    /\ UNCHANGED extVars

\* graph.get_upstream(c) on the graph last built
GetUpstream(c) ==
    /\ graph.built
    /\ query' = [op |-> "get_upstream", cell |-> c,
                 result |-> get_upstream(graph.nodes, c)]
    /\ UNCHANGED <<fmt, cells, stateFile, recorded, graph, report, res,
                   lastCmd, exit_code, ran, log>>
    /\ UNCHANGED extVars

\* graph.get_downstream(c) on the graph last built
GetDownstream(c) ==
    /\ graph.built
    /\ query' = [op |-> "get_downstream", cell |-> c,
                 result |-> get_downstream(graph.nodes, c)]
    /\ UNCHANGED <<fmt, cells, stateFile, recorded, graph, report, res,
                   lastCmd, exit_code, ran, log>>
    /\ UNCHANGED extVars

\* StateAnalyzer().analyze(adapter, notebook_path, state_tracker)
Analyze(notebook_path, tracker_given) ==
    /\ report' = [called |-> TRUE, notebook_path |-> notebook_path,
                  tracker_given |-> tracker_given,
                  analysis |-> analyze(fmt, cells, stateFile, notebook_path,
                                       tracker_given)]
    /\ graph' = NoGraph /\ query' = NoQuery /\ res' = NoRes
    /\ UNCHANGED <<fmt, cells, stateFile, recorded, lastCmd, exit_code, ran, log>>
    /\ UNCHANGED extVars

\* tracker.update_cell(notebook, cell_index, source); on a state file whose
\* JSON is not an object, state[key] = ... raises and nothing is written.
UpdateCell(notebook, cell_index, source) ==
    /\ IF _load_is_dict(stateFile)
       THEN /\ stateFile' = update_cell(stateFile, notebook, cell_index, source)
            /\ recorded' = recorded \cup {<<_normalize_path(notebook), cell_index>>}
       ELSE UNCHANGED <<stateFile, recorded>>
    /\ res' = IF _load_is_dict(stateFile)
              THEN [NoRes EXCEPT !.op = "update_cell", !.notebook = notebook,
                                 !.cell_index = cell_index,
                                 !.source = Some(source)]
              ELSE NoRes
    /\ report' = NoReport /\ graph' = NoGraph /\ query' = NoQuery
    /\ UNCHANGED <<fmt, cells, lastCmd, exit_code, ran, log>>
    /\ UNCHANGED extVars

\* The reads made so far with the same arguments on the same journal
\* (source is None for a read that takes no source).
ReadsFor(notebook, cell_index, source) ==
    IF /\ res.op = "read" /\ res.notebook = notebook
       /\ res.cell_index = cell_index
       /\ (source = None \/ res.source = None \/ res.source = source)
    THEN [res EXCEPT !.source = IF source = None THEN @ ELSE source]
    ELSE [NoRes EXCEPT !.op = "read", !.notebook = notebook,
                       !.cell_index = cell_index, !.source = source]

\* tracker.is_stale(notebook, cell_index, source)
IsStale(notebook, cell_index, source) ==
    /\ res' = [ReadsFor(notebook, cell_index, Some(source)) EXCEPT
                 !.stale = Some(is_stale(stateFile, notebook, cell_index, source))]
    /\ report' = NoReport /\ graph' = NoGraph /\ query' = NoQuery
    /\ UNCHANGED <<fmt, cells, stateFile, recorded, lastCmd, exit_code, ran, log>>
    /\ UNCHANGED extVars

\* tracker.was_executed(notebook, cell_index)
WasExecuted(notebook, cell_index) ==
    /\ res' = [ReadsFor(notebook, cell_index, None) EXCEPT
                 !.executed = Some(was_executed(stateFile, notebook, cell_index))]
    /\ report' = NoReport /\ graph' = NoGraph /\ query' = NoQuery
    /\ UNCHANGED <<fmt, cells, stateFile, recorded, lastCmd, exit_code, ran, log>>
    /\ UNCHANGED extVars

\* tracker.was_executed_current(notebook, cell_index, source)
WasExecutedCurrent(notebook, cell_index, source) ==
    /\ res' = [ReadsFor(notebook, cell_index, Some(source)) EXCEPT
                 !.current = Some(was_executed_current(stateFile, notebook,
                                                       cell_index, source))]
    /\ report' = NoReport /\ graph' = NoGraph /\ query' = NoQuery
    /\ UNCHANGED <<fmt, cells, stateFile, recorded, lastCmd, exit_code, ran, log>>
    /\ UNCHANGED extVars

\* The journal file is damaged from outside (truncated, overwritten).
DamageStateFile ==
    /\ stateFile.status = "ok"
    /\ stateFile' = CorruptFile
    /\ res' = NoRes /\ report' = NoReport /\ graph' = NoGraph /\ query' = NoQuery
    /\ UNCHANGED <<fmt, cells, recorded, lastCmd, exit_code, ran, log>>
    /\ UNCHANGED extVars

\* The state file is deleted from outside.
DeleteStateFile ==
    /\ stateFile.status # "missing"
    /\ stateFile' = MissingFile
    /\ res' = NoRes /\ report' = NoReport /\ graph' = NoGraph /\ query' = NoQuery
    /\ rd' = NoRead
    /\ UNCHANGED <<fmt, cells, recorded, lastCmd, exit_code, ran, log>>
    /\ UNCHANGED <<fileVars, kernelVars, sessionVars, jobVars, adapterVars,
                   storeVars, raceVars, fixVars>>

\* The state file is overwritten from outside with JSON that is not an object.
ForeignStateFile ==
    /\ stateFile.status # "not_object"
    /\ stateFile' = NotObjectFile
    /\ res' = NoRes /\ report' = NoReport /\ graph' = NoGraph /\ query' = NoQuery
    /\ rd' = NoRead
    /\ UNCHANGED <<fmt, cells, recorded, lastCmd, exit_code, ran, log>>
    /\ UNCHANGED <<fileVars, kernelVars, sessionVars, jobVars, adapterVars,
                   storeVars, raceVars, fixVars>>

\* What rd keeps of one journal read: the state of the file at the call, the
\* answer the same read gives on an empty journal, and the outcome.
ReadResult(op, sf, empty_answer, outcome) ==
    [op |-> op, status |-> sf.status, empty_answer |-> empty_answer,
     outcome |-> outcome]

\* tracker.is_stale(notebook, cell_index, source), as a call
ReadIsStale(notebook, cell_index, source) ==
    /\ rd' = ReadResult("is_stale", stateFile, TRUE,
                        is_stale_call(stateFile, notebook, cell_index, source))
    /\ UNCHANGED nonReadVars

\* tracker.was_executed(notebook, cell_index), as a call
ReadWasExecuted(notebook, cell_index) ==
    /\ rd' = ReadResult("was_executed", stateFile, FALSE,
                        was_executed_call(stateFile, notebook, cell_index))
    /\ UNCHANGED nonReadVars

\* tracker.was_executed_current(notebook, cell_index, source), as a call
ReadWasExecutedCurrent(notebook, cell_index, source) ==
    /\ rd' = ReadResult("was_executed_current", stateFile, FALSE,
                        was_executed_current_call(stateFile, notebook,
                                                  cell_index, source))
    /\ UNCHANGED nonReadVars

\* tracker.get_stale_cells(notebook, cs), as a call; on an empty journal
\* every cell asked about is stale
ReadGetStaleCells(notebook, cs) ==
    /\ rd' = ReadResult("get_stale_cells", stateFile,
                        [k \in 1..Len(cs) |-> cs[k][1]],
                        get_stale_cells_call(stateFile, notebook, cs))
    /\ UNCHANGED nonReadVars

(***************************************************************************)
(* Persistence writers (session/state.py, session/context.py,              *)
(* session/profiles.py, session/jobs.py, cli/async_runner.py)              *)
(*                                                                         *)
(* The content of a file is [kind, version]: absent, the whole text of     *)
(* version n, or a part of it (a file opened for writing and truncated,    *)
(* written up to some point).  One writer call is followed step by step;   *)
(* every system call of the writer can fail, and a reader of the           *)
(* destination can run between any two steps.                              *)
(***************************************************************************)
Absent == [kind |-> "absent", version |-> 0]
Whole(n) == [kind |-> "whole", version |-> n]
Partial(n) == [kind |-> "partial", version |-> n]

\* StateTracker._save, ContextManager.write, ProfileCache.save
AtomicWriters == {"StateTracker._save", "ContextManager.write", "ProfileCache.save"}
\* JobManager._save, async_runner.update_job_status
DirectWriters == {"JobManager._save", "update_job_status"}
Writers == AtomicWriters \cup DirectWriters

NoCall ==
    [n |-> 0, outcome |-> "none", prev |-> Absent, new |-> Absent,
     tmps_before |-> 0, made_tmp |-> FALSE, unlink_failed |-> FALSE, opened_dest |-> FALSE]
NoSeen == [read |-> FALSE, content |-> Absent]

\* the writer is called with the next version of the content; n counts the
\* calls made
WriterCall ==
    /\ target \in Writers
    /\ wpc = "idle"
    /\ wcall.n < MaxCalls
    /\ wcall' = [NoCall EXCEPT !.n = wcall.n + 1,
                               !.outcome = "running", !.prev = file,
                               !.new = Whole(file.version + 1),
                               !.tmps_before = tmps]
    /\ wpc' = "mkdir"
    /\ UNCHANGED <<target, file, tmps, seen>>
    /\ UNCHANGED nonFileVars

\* parent.mkdir(parents=True, exist_ok=True) / ensure_session() /
\* get_jobs_dir(): the directory is made; a failure leaves the call.
WriterMkdir(ok) ==
    /\ wpc = "mkdir"
    /\ IF ok
       THEN /\ wpc' = IF target \in AtomicWriters THEN "mkstemp" ELSE "open"
            /\ wcall' = wcall
       ELSE /\ wpc' = "idle"
            /\ wcall' = [wcall EXCEPT !.outcome = "raised"]
    /\ UNCHANGED <<target, file, tmps, seen>>
    /\ UNCHANGED nonFileVars

\* tempfile.mkstemp(dir=..., suffix=".tmp"), before the try block
WriterMkstemp(ok) ==
    /\ wpc = "mkstemp"
    /\ IF ok
       THEN /\ tmps' = tmps + 1
            /\ wpc' = "dump"
            /\ wcall' = [wcall EXCEPT !.made_tmp = TRUE]
       ELSE /\ tmps' = tmps
            /\ wpc' = "idle"
            /\ wcall' = [wcall EXCEPT !.outcome = "raised"]
    /\ UNCHANGED <<target, file, seen>>
    /\ UNCHANGED nonFileVars

\* with os.fdopen(fd, "w") as f: json.dump / yaml.dump into the temporary file
WriterDump(ok) ==
    /\ wpc = "dump"
    /\ wpc' = IF ok THEN "replace" ELSE "except"
    /\ UNCHANGED <<target, file, tmps, wcall, seen>>
    /\ UNCHANGED nonFileVars

\* os.replace(tmp_path, destination): the rename is atomic
WriterReplace(ok) ==
    /\ wpc = "replace"
    /\ IF ok
       THEN /\ file' = wcall.new
            /\ tmps' = tmps - 1
            /\ wpc' = "idle"
            /\ wcall' = [wcall EXCEPT !.outcome = "returned"]
       ELSE /\ wpc' = "except"
            /\ UNCHANGED <<file, tmps, wcall>>
    /\ UNCHANGED <<target, seen>>
    /\ UNCHANGED nonFileVars

\* Mutation of except_unlink: the except branch does not remove the file.
except_keep(n, ok) == n

\* the temporary files left by the except branch: os.unlink(tmp_path), whose
\* own OSError is passed over
except_unlink(n, ok) == IF ok THEN n - 1 ELSE n

\* except BaseException: try os.unlink(tmp_path) except OSError: pass; raise
WriterExcept(ok) ==
    /\ wpc = "except"
    /\ tmps' = except_unlink(tmps, ok)
    /\ wpc' = "idle"
    /\ wcall' = [wcall EXCEPT !.outcome = "raised", !.unlink_failed = ~ok]
    /\ UNCHANGED <<target, file, seen>>
    /\ UNCHANGED nonFileVars

\* open(path, "w") / Path.write_text: the destination itself is opened for
\* writing, which truncates it
WriterOpenDest(ok) ==
    /\ wpc = "open"
    /\ IF ok
       THEN /\ file' = Partial(wcall.new.version)
            /\ wpc' = "dump_dest"
            /\ wcall' = [wcall EXCEPT !.opened_dest = TRUE]
       ELSE /\ file' = file
            /\ wpc' = "idle"
            /\ wcall' = [wcall EXCEPT !.outcome = "raised"]
    /\ UNCHANGED <<target, tmps, seen>>
    /\ UNCHANGED nonFileVars

\* json.dump(asdict(job), f) / the write of write_text, into the destination
WriterDumpDest(ok) ==
    /\ wpc = "dump_dest"
    /\ file' = IF ok THEN wcall.new ELSE file
    /\ wpc' = "idle"
    /\ wcall' = [wcall EXCEPT !.outcome = IF ok THEN "returned" ELSE "raised"]
    /\ UNCHANGED <<target, tmps, seen>>
    /\ UNCHANGED nonFileVars

\* A reader in another process opens the destination and reads it to the end
\* (_load, ContextManager.read, ProfileCache.load, get_job).
ReadDest ==
    /\ target \in Writers
    /\ seen' = [read |-> TRUE, content |-> file]
    /\ UNCHANGED <<target, file, tmps, wpc, wcall>>
    /\ UNCHANGED nonFileVars

(***************************************************************************)
(* Interpreter session (notebook/kernel.py)                                *)
(*                                                                         *)
(* A message on iopub is [parent, msg_type, name, val]: parent is the      *)
(* msg_id of the submission it belongs to, name the stream name, val the   *)
(* text, the data, the error or the execution state.  The kernel runs the  *)
(* submissions in the order they were made and every message it publishes  *)
(* belongs to the oldest one that has not reached idle.  ename, evalue and *)
(* traceback of one error message are one value.  Time is counted in       *)
(* units: waited since the current get_iopub_msg began, elapsed since the  *)
(* submission.                                                             *)
(***************************************************************************)
Msg(parent, msg_type, name, val) ==
    [parent |-> parent, msg_type |-> msg_type, name |-> name, val |-> val]

\* what a cell can make the kernel publish
MsgKinds ==
    {<<"stream", "stdout", "a">>, <<"stream", "stderr", "b">>,
     <<"execute_result", "", "d1">>, <<"display_data", "", "d2">>,
     <<"error", "", "e1">>, <<"error", "", "e2">>,
     <<"status", "", "idle">>}

\* the timeouts callers pass, in time units
Timeouts == {1}

NoExecute ==
    [pc |-> "idle", msg_id |-> 0, timeout |-> 0, stdout_parts |-> << >>,
     stderr_parts |-> << >>, result |-> None, error |-> None,
     waited |-> 0, elapsed |-> 0]

\* ExecutionResult, with how the call ended: "idle", "timeout" or "none"
ExecutionResult(ended, msg_id, success, stdout, stderr, result, error, error_type) ==
    [ended |-> ended, msg_id |-> msg_id, success |-> success,
     stdout |-> stdout, stderr |-> stderr, result |-> result,
     error |-> error, error_type |-> error_type]

NoResult == ExecutionResult("none", 0, FALSE, << >>, << >>, None, None, None)

\* Mutation of is_own: messages of other submissions are not skipped.
is_own_any(msg, msg_id) == TRUE

\* msg['parent_header'].get('msg_id') == msg_id
is_own(msg, msg_id) == msg.parent = msg_id

\* One turn of the while loop on a message of this submission that is not
\* status idle: the collected parts after it.
collect(e, msg) ==
    IF msg.msg_type = "stream"
    THEN IF msg.name = "stdout"
         THEN [e EXCEPT !.stdout_parts = Append(@, msg.val)]
         ELSE IF msg.name = "stderr"
              THEN [e EXCEPT !.stderr_parts = Append(@, msg.val)]
              ELSE e
    ELSE IF msg.msg_type = "execute_result"
    THEN [e EXCEPT !.result = Some(msg.val)]
    ELSE IF msg.msg_type = "display_data"
    THEN IF e.result = None THEN [e EXCEPT !.result = Some(msg.val)] ELSE e
    ELSE IF msg.msg_type = "error"
    THEN [e EXCEPT !.error = Some(msg.val)]
    ELSE e

\* the ExecutionResult returned after the loop
result_on_idle(e) ==
    ExecutionResult("idle", e.msg_id, e.error = None, e.stdout_parts,
                    e.stderr_parts, e.result, e.error,
                    IF e.error = None THEN None ELSE Some("ename"))

\* the ExecutionResult returned from the except queue.Empty branch
result_on_timeout(e) ==
    ExecutionResult("timeout", e.msg_id, FALSE, e.stdout_parts,
                    e.stderr_parts, None, Some("Execution timed out"),
                    Some("TimeoutError"))

\* kernel.execute(code, timeout) is called on a started session:
\* msg_id = self._kc.execute(code).  The callers make the next call whatever
\* the last one returned (run._run_sync, lines 153-179).
Execute(code, timeout) ==
    /\ proc = "alive" /\ mgr._kc
    /\ ex.pc = "idle"
    /\ Len(subs) < MaxSubs
    /\ LET msg_id == Len(subs) + 1
       IN /\ ex' = [NoExecute EXCEPT !.pc = "waiting", !.msg_id = msg_id,
                                     !.timeout = timeout]
          /\ subs' = Append(subs, [msg_id |-> msg_id, source |-> code,
                                   overlap |-> busy # << >>])
          /\ busy' = Append(busy, msg_id)
    /\ xres' = NoResult
    /\ UNCHANGED <<proc, mgr, published, rdpos, interrupts>>
    /\ UNCHANGED nonKernelVars

\* The kernel publishes one message of the submission it is running; status
\* idle ends that submission.
KernelPublish(kind) ==
    /\ proc = "alive"
    /\ busy # << >>
    /\ Len(published) < MaxMsgs
    /\ published' = Append(published, Msg(Head(busy), kind[1], kind[2], kind[3]))
    /\ busy' = IF kind[1] = "status" THEN Tail(busy) ELSE busy
    /\ UNCHANGED <<proc, mgr, rdpos, ex, xres, subs, interrupts>>
    /\ UNCHANGED nonKernelVars

\* One turn of the while loop: get_iopub_msg(timeout=timeout) returns the
\* next message, which is skipped, collected, or ends the call.
ExecuteGetMsg ==
    /\ ex.pc = "waiting"
    /\ rdpos < Len(published)
    /\ rdpos' = rdpos + 1
    /\ LET msg == published[rdpos + 1]
           e == [ex EXCEPT !.waited = 0]
       IN IF ~is_own(msg, ex.msg_id)
          THEN ex' = e /\ xres' = xres
          ELSE IF msg.msg_type = "status" /\ msg.val = "idle"
          THEN ex' = NoExecute /\ xres' = result_on_idle(ex)
          ELSE ex' = collect(e, msg) /\ xres' = xres
    /\ UNCHANGED <<proc, mgr, published, busy, subs, interrupts>>
    /\ UNCHANGED nonKernelVars

\* One time unit passes while get_iopub_msg waits on the empty channel.
ExecuteTick ==
    /\ ex.pc = "waiting"
    /\ rdpos = Len(published)
    /\ ex.waited < ex.timeout
    /\ ex.elapsed < MaxClock
    /\ ex' = [ex EXCEPT !.waited = @ + 1, !.elapsed = @ + 1]
    /\ UNCHANGED <<proc, mgr, published, rdpos, busy, xres, subs, interrupts>>
    /\ UNCHANGED nonKernelVars

\* get_iopub_msg has waited `timeout` without a message: queue.Empty
ExecuteTimeout ==
    /\ ex.pc = "waiting"
    /\ rdpos = Len(published)
    /\ ex.waited = ex.timeout
    /\ ex' = NoExecute
    /\ xres' = result_on_timeout(ex)
    /\ UNCHANGED <<proc, mgr, published, rdpos, busy, subs, interrupts>>
    /\ UNCHANGED nonKernelVars

(***************************************************************************)
(* Commands (cli/run.py, cli/edit.py, cli/check.py)                        *)
(***************************************************************************)
NoSel == [cell |-> None, from_cell |-> None, to_cell |-> None,
          all_cells |-> FALSE, stale |-> FALSE]

\* The selections a caller can make: at most one option of `run`.
Selectors(n) ==
    {NoSel, [NoSel EXCEPT !.all_cells = TRUE], [NoSel EXCEPT !.stale = TRUE]}
      \cup {[NoSel EXCEPT !.cell = Some(i)] : i \in 0..n}
      \cup {[NoSel EXCEPT !.from_cell = Some(i)] : i \in 0..n}
      \cup {[NoSel EXCEPT !.to_cell = Some(i)] : i \in 0..n}

\* run._get_cells_to_run
_get_cells_to_run(f, cs, sel) ==
    LET cc == code_cells(f, cs)
        IsCell(c) == c.index = sel.cell[1]
        From(c) == c.index >= sel.from_cell[1]
        To(c) == c.index <= sel.to_cell[1]
        NoCount(c) == c.execution_count = None
    IN IF sel.cell # None THEN SelectSeq(cc, IsCell)
       ELSE IF sel.all_cells THEN cc
       ELSE IF sel.from_cell # None THEN SelectSeq(cc, From)
       ELSE IF sel.to_cell # None THEN SelectSeq(cc, To)
       ELSE IF sel.stale THEN SelectSeq(cc, NoCount)
       ELSE << >>

\* `dasa run` (run._run_sync): every selected cell is executed in the kernel,
\* which makes each succeed or fail; nothing is written to the notebook, the
\* journal or the log.  A notebook that is not .ipynb cannot be loaded by
\* JupyterAdapter and the command ends with an error.
Run(sel) ==
    /\ lastCmd' = "run"
    /\ graph' = NoGraph /\ query' = NoQuery /\ report' = NoReport /\ res' = NoRes
    /\ IF fmt # "ipynb"
       THEN exit_code' = 1 /\ ran' = ran
       ELSE LET targets == _get_cells_to_run(fmt, cells, sel)
            IN \E okIdx \in SUBSET {targets[k].index : k \in 1..Len(targets)} :
                 /\ ran' = {pr \in ran : pr[1] \notin okIdx}
                             \cup {<<targets[k].index, targets[k].source>> :
                                     k \in {k \in 1..Len(targets) :
                                              targets[k].index \in okIdx}}
                 /\ exit_code' = 0
    /\ UNCHANGED <<fmt, cells, stateFile, recorded, log>>
    /\ UNCHANGED extVars

\* `dasa edit --cell cell --code code`
Edit(cell, code) ==
    /\ lastCmd' = "edit"
    /\ graph' = NoGraph /\ query' = NoQuery /\ report' = NoReport /\ res' = NoRes
    /\ IF \/ fmt # "ipynb"
          \/ cell < 0 \/ cell >= Len(cells)
          \/ cells[cell + 1].cell_type # "code"
          \/ ~code.ok
       THEN exit_code' = 1 /\ cells' = cells
       ELSE /\ cells' = [cells EXCEPT ![cell + 1].source = code]
            /\ exit_code' = 0
    /\ UNCHANGED <<fmt, stateFile, recorded, ran, log>>
    /\ UNCHANGED extVars

\* `dasa check notebook [--cell cell] --format format` without --fix
Check(cell, format) ==
    LET state_analysis == analyze(fmt, cells, stateFile, None, FALSE)
        dep_graph == build_graph(fmt, cells)
        issue_count == Len(state_analysis.issues)
    IN /\ lastCmd' = "check"
       /\ report' = [called |-> TRUE, notebook_path |-> None,
                     tracker_given |-> FALSE, analysis |-> state_analysis]
       /\ graph' = [built |-> TRUE, nodes |-> dep_graph]
       /\ res' = NoRes
       /\ IF format = "json"
          THEN /\ query' = IF cell # None
                           THEN [op |-> "get_downstream", cell |-> cell[1],
                                 result |-> get_downstream(dep_graph, cell[1])]
                           ELSE NoQuery
               /\ log' = log
               /\ exit_code' = 0
          ELSE /\ Len(log) < MaxLog
               /\ query' = IF cell # None /\ cell[1] \in DOMAIN dep_graph
                           THEN [op |-> "get_downstream", cell |-> cell[1],
                                 result |-> get_downstream(dep_graph, cell[1])]
                           ELSE NoQuery
               /\ log' = Append(log, [source |-> "check",
                                      message |-> IF issue_count # 0
                                                  THEN "Found issues"
                                                  ELSE "is consistent",
                                      issues |-> issue_count])
               /\ exit_code' = IF state_analysis.is_consistent THEN 0 ELSE 1
       /\ UNCHANGED <<fmt, cells, stateFile, recorded, ran>>
       /\ UNCHANGED extVars

\* what `check --fix` leaves behind when it has not run
NoFix == [called |-> FALSE, started |-> FALSE, targets |-> << >>,
          results |-> << >>]

\* _auto_fix, the repair targets: the code cells whose execution_count is
\* None, and those the journal calls stale.
cells_to_fix(f, cs, sf, notebook) ==
    LET Fixable(c) == \/ c.execution_count = None
                      \/ is_stale(sf, notebook, c.index, c.source)
    IN SelectSeq(code_cells(f, cs), Fixable)

\* _auto_fix, the loop over the targets: tracker.update_cell for each target
\* whose execution succeeded, in order; the value is the resulting journal.
RECURSIVE fix_journal(_, _, _, _)
fix_journal(sf, notebook, targets, okIdx) ==
    IF targets = << >> THEN sf
    ELSE fix_journal(IF Head(targets).index \in okIdx
                     THEN update_cell(sf, notebook, Head(targets).index,
                                      Head(targets).source)
                     ELSE sf,
                     notebook, Tail(targets), okIdx)

\* `dasa check notebook --fix --format format`: both analyses are made and
\* dropped, then _auto_fix runs.  With nothing to fix it returns at once.
\* Otherwise a kernel is started (started is FALSE when kernel.start raises:
\* the exception leaves the command), the cells before the first target
\* that have a count are replayed with their results ignored, and every
\* target is executed, okIdx being the targets that succeed.  The notebook
\* file is not written.
CheckFix(format, started, okIdx) ==
    LET targets == cells_to_fix(fmt, cells, stateFile, NbPath)
        idx == Indices(targets)
        results == [k \in 1..Len(targets) |->
                      [cell |-> idx[k], success |-> idx[k] \in okIdx]]
    IN /\ okIdx \subseteq {idx[k] : k \in 1..Len(idx)}
       /\ lastCmd' = "check --fix"
       /\ report' = [called |-> TRUE, notebook_path |-> None,
                     tracker_given |-> FALSE,
                     analysis |-> analyze(fmt, cells, stateFile, None, FALSE)]
       /\ graph' = [built |-> TRUE, nodes |-> build_graph(fmt, cells)]
       /\ query' = NoQuery /\ res' = NoRes
       /\ IF targets = << >>
          THEN /\ started /\ okIdx = {}
               /\ fixed' = [NoFix EXCEPT !.called = TRUE]
               /\ exit_code' = 0
               /\ UNCHANGED <<stateFile, recorded, log>>
          ELSE IF ~started
          THEN /\ okIdx = {}
               /\ fixed' = [NoFix EXCEPT !.called = TRUE, !.targets = idx]
               /\ exit_code' = 1
               /\ UNCHANGED <<stateFile, recorded, log>>
          ELSE /\ Len(log) < MaxLog
               /\ fixed' = [called |-> TRUE, started |-> TRUE,
                            targets |-> idx, results |-> results]
               /\ stateFile' = fix_journal(stateFile, NbPath, targets, okIdx)
               /\ recorded' = recorded \cup
                                 {<<_normalize_path(NbPath), i>> : i \in okIdx}
               /\ log' = Append(log, [source |-> "check",
                                      message |-> "Auto-fixed",
                                      issues |-> Cardinality(okIdx)])
               /\ exit_code' = IF \A k \in 1..Len(results) : results[k].success
                               THEN 0 ELSE 1
       /\ UNCHANGED <<fmt, cells, ran>>
       /\ UNCHANGED extButFixVars

(***************************************************************************)
(* Commands that own an interpreter session, step by step                  *)
(* (cli/run.py _run_sync; mcp/server.py _handle_run with _get_kernel and   *)
(* _release_kernel).  A call of kernel.execute is one step here, with the  *)
(* ways it can end: the submission reaches idle with or without an error,  *)
(* the call times out, or the user's interrupt is raised inside it.        *)
(***************************************************************************)
NoCmd ==
    [name |-> "none", pc |-> "none", sel |-> NoSel, targets |-> << >>,
     k |-> 1, in_try |-> FALSE, cancelled |-> FALSE, how |-> "none",
     first_target_at |-> 0, results |-> << >>, exit |-> None]

\* "dir()", the source _build_error_context submits after a NameError
SrcDir == Src(TRUE, {}, {"dir"}, 0)

\* An exception leaves the current statement: inside the try block the
\* finally clause runs next, outside it the command is over.
Raise(c) ==
    [c EXCEPT !.pc = IF c.in_try THEN "finally" ELSE "ended", !.how = "raised"]

\* The command starts: run._run_sync builds the adapter and the
\* KernelManager and enters its try block; DASAServer._handle_run calls
\* _get_kernel before its try block.
CmdBegin(name, sel) ==
    /\ cmd.pc = "none"
    /\ fmt = "ipynb"
    /\ cmd' = [NoCmd EXCEPT !.name = name, !.pc = "start_kernel", !.sel = sel,
                            !.in_try = (name = "run")]
    /\ UNCHANGED kernelVars
    /\ UNCHANGED nonSessionVars

\* KernelManager.start, first part: self._km is set and start_kernel()
\* launches the subprocess, or raises without one.
KernelStartKernel(ok) ==
    /\ cmd.pc = "start_kernel"
    /\ mgr' = [mgr EXCEPT !._km = TRUE]
    /\ proc' = IF ok THEN "alive" ELSE proc
    /\ cmd' = IF ok THEN [cmd EXCEPT !.pc = "wait_ready"] ELSE Raise(cmd)
    /\ UNCHANGED <<published, rdpos, busy, ex, xres, subs, interrupts>>
    /\ UNCHANGED nonSessionVars

\* KernelManager.start, second part: the client and its channels are made
\* and wait_for_ready(timeout=60) returns, or raises with the subprocess
\* running.  When start returns, _get_kernel stores the manager in
\* self._kernels and _handle_run enters its try block.
KernelWaitReady(ok) ==
    /\ cmd.pc = "wait_ready"
    /\ mgr' = [mgr EXCEPT !._kc = TRUE]
    /\ cmd' = IF ok THEN [cmd EXCEPT !.pc = "select", !.in_try = TRUE]
                    ELSE Raise(cmd)
    /\ UNCHANGED <<proc, published, rdpos, busy, ex, xres, subs, interrupts>>
    /\ UNCHANGED nonSessionVars

\* The cells to run are determined (_get_cells_to_run; in _handle_run the
\* cell and all options select the same way).
CmdSelect ==
    /\ cmd.pc = "select"
    /\ cmd' = [cmd EXCEPT !.pc = "loop",
                          !.targets = _get_cells_to_run(fmt, cells, cmd.sel)]
    /\ UNCHANGED kernelVars
    /\ UNCHANGED nonSessionVars

\* the record of one submission
Submission(msg_id, source, b) ==
    [msg_id |-> msg_id, source |-> source, overlap |-> b # << >>]

\* One turn of the loop: kernel.execute(cell_obj.source, timeout) on the next
\* target.  After a NameError, run's text output submits "dir()" as well.
CmdExecute(outcome) ==
    /\ cmd.pc = "loop"
    /\ cmd.k <= Len(cmd.targets)
    /\ outcome = "name_error" => cmd.name = "run"
    /\ LET msg_id == Len(subs) + 1
           source == cmd.targets[cmd.k].source
           c == [cmd EXCEPT !.k = @ + 1,
                            !.first_target_at =
                                IF @ = 0 THEN msg_id ELSE @,
                            !.results =
                                Append(@, [cell |-> cmd.targets[cmd.k].index,
                                           success |-> outcome = "ok"])]
           reached_idle == outcome \in {"ok", "error", "name_error"}
       IN /\ subs' = Append(subs, Submission(msg_id, source, busy))
                        \o (IF outcome = "name_error"
                            THEN <<Submission(msg_id + 1, SrcDir, << >>)>>
                            ELSE << >>)
          /\ busy' = IF reached_idle THEN << >> ELSE Append(busy, msg_id)
          /\ xres' = IF outcome = "ok"
                     THEN ExecutionResult("idle", msg_id, TRUE, << >>, << >>,
                                          None, None, None)
                     ELSE IF outcome \in {"error", "name_error"}
                     THEN ExecutionResult("idle", msg_id, FALSE, << >>, << >>,
                                          None, Some("e1"), Some("ename"))
                     ELSE IF outcome = "timeout"
                     THEN ExecutionResult("timeout", msg_id, FALSE, << >>,
                                          << >>, None,
                                          Some("Execution timed out"),
                                          Some("TimeoutError"))
                     ELSE NoResult
          /\ cmd' = IF outcome = "interrupt"
                    THEN Raise([cmd EXCEPT !.cancelled = TRUE,
                                           !.first_target_at =
                                               c.first_target_at])
                    ELSE c
    /\ UNCHANGED <<proc, mgr, published, rdpos, ex, interrupts>>
    /\ UNCHANGED nonSessionVars

\* Something else in the loop raises (printing the result, for one).
CmdUnhandledError ==
    /\ cmd.pc = "loop"
    /\ cmd' = Raise(cmd)
    /\ UNCHANGED kernelVars
    /\ UNCHANGED nonSessionVars

\* The loop is over (or there was nothing to run) and the body returns.
CmdLoopEnd ==
    /\ cmd.pc = "loop"
    /\ cmd.k > Len(cmd.targets)
    /\ cmd' = [cmd EXCEPT !.pc = "finally", !.how = "returned"]
    /\ UNCHANGED kernelVars
    /\ UNCHANGED nonSessionVars

\* the subprocess after shutdown_kernel(now=True)
shutdown_kernel(p) == IF p = "alive" THEN "dead" ELSE p

\* finally: kernel.shutdown() / self._release_kernel(notebook); then the
\* command is over: a return ends the process with exit status 0, an
\* exception that leaves the command with 1.
CmdFinally ==
    /\ cmd.pc = "finally"
    /\ proc' = IF mgr._km THEN shutdown_kernel(proc) ELSE proc
    /\ mgr' = [_km |-> FALSE, _kc |-> FALSE]
    /\ busy' = << >>
    /\ cmd' = [cmd EXCEPT !.pc = "ended",
                          !.exit = Some(IF cmd.how = "returned" THEN 0 ELSE 1)]
    /\ UNCHANGED <<published, rdpos, ex, xres, subs, interrupts>>
    /\ UNCHANGED nonSessionVars

(***************************************************************************)
(* Background jobs (session/jobs.py JobManager).  A job id is the position *)
(* of its record in jobs; a pid of 0 is the one create_job stores.         *)
(***************************************************************************)
Pids == 1..MaxPid

NoJobCall == [op |-> "none", job_id |-> 0, value |-> None,
              stored_before |-> None, process_gone |-> FALSE]

Job(pid, status) == [pid |-> pid, status |-> status]

\* the statuses a caller stores when the background execution ends
EndStatuses == {"completed", "failed"}

\* get_job: the stored record, or None when there is no file for the id
get_job(js, job_id) ==
    IF job_id \in 1..Len(js) THEN Some(js[job_id]) ELSE None

\* os.kill(pid, 0) succeeds when the process exists
process_exists(lv, pid) == pid \in lv

\* is_running: False without a record or with pid 0, else whether the
\* process exists
is_running(js, lv, job_id) ==
    LET job == get_job(js, job_id)
    IN IF job = None \/ job[1].pid = 0 THEN FALSE
       ELSE process_exists(lv, job[1].pid)

\* what a call gives back, with what was stored when it was made
JobResult(op, js, lv, job_id, value) ==
    LET job == get_job(js, job_id)
    IN [op |-> op, job_id |-> job_id, value |-> value,
        stored_before |-> IF job = None THEN None ELSE Some(job[1].status),
        process_gone |-> job # None /\ job[1].pid # 0
                           /\ ~process_exists(lv, job[1].pid)]

CreateJob ==
    /\ Len(jobs) < MaxJobs
    /\ jobs' = Append(jobs, Job(0, "running"))
    /\ jres' = JobResult("create_job", jobs, live, Len(jobs) + 1,
                         Some(Job(0, "running")))
    /\ UNCHANGED live
    /\ UNCHANGED nonJobVars

\* The background process of a job starts and its pid is stored:
\* update_job(job_id, pid=pid).
StartProcess(job_id, pid) ==
    /\ job_id \in 1..Len(jobs)
    /\ jobs[job_id].pid = 0
    /\ pid \notin live
    /\ \A j \in 1..Len(jobs) : jobs[j].pid # pid
    /\ live' = live \cup {pid}
    /\ jobs' = [jobs EXCEPT ![job_id].pid = pid]
    /\ jres' = JobResult("update_job", jobs, live, job_id,
                         Some(jobs'[job_id]))
    /\ UNCHANGED nonJobVars

\* update_job(job_id, status=status): None without a record, else the
\* record with the field set, saved.
UpdateJob(job_id, status) ==
    /\ job_id \in 1..MaxJobs
    /\ jobs' = IF get_job(jobs, job_id) = None THEN jobs
               ELSE [jobs EXCEPT ![job_id].status = status]
    /\ jres' = JobResult("update_job", jobs, live, job_id,
                         get_job(jobs', job_id))
    /\ UNCHANGED live
    /\ UNCHANGED nonJobVars

\* get_job(job_id): the record as stored; nothing is written
GetJob(job_id) ==
    /\ job_id \in 1..MaxJobs
    /\ jres' = JobResult("get_job", jobs, live, job_id, get_job(jobs, job_id))
    /\ UNCHANGED <<jobs, live>>
    /\ UNCHANGED nonJobVars

IsRunning(job_id) ==
    /\ job_id \in 1..MaxJobs
    /\ jres' = JobResult("is_running", jobs, live, job_id,
                         Some(is_running(jobs, live, job_id)))
    /\ UNCHANGED <<jobs, live>>
    /\ UNCHANGED nonJobVars

\* list_jobs(status): the stored records, filtered by their stored status
ListJobs(status) ==
    /\ jres' = JobResult("list_jobs", jobs, live, 0,
                         Some(SelectSeq(jobs,
                              LAMBDA j : status = None \/ j.status = status[1])))
    /\ UNCHANGED <<jobs, live>>
    /\ UNCHANGED nonJobVars

\* the OS process of a job goes away (exit, crash, kill)
ProcessExit(pid) ==
    /\ pid \in live
    /\ live' = live \ {pid}
    /\ UNCHANGED <<jobs, jres>>
    /\ UNCHANGED nonJobVars

(***************************************************************************)
(* Notebook operations (notebook/jupyter.py JupyterAdapter, notebook/      *)
(* marimo.py MarimoAdapter, cli/move.py).  cells is the adapter's list in  *)
(* memory (_notebook.cells or _cells); a cell carries its outputs here.    *)
(***************************************************************************)
NoOp == [n |-> 0, op |-> "none", index |-> None, to |-> None,
         raised |-> "none", before |-> << >>, disk_before |-> << >>]

\* nbformat.v4.new_code_cell / new_markdown_cell / new_raw_cell as the Cell
\* view shows it
new_cell(cell_type, source) ==
    [cell_type |-> cell_type, source |-> source, execution_count |-> None,
     outputs |-> << >>]

\* list.insert(i, x): a negative i counts from the end, and an i beyond
\* either end is clamped to that end
list_insert(s, i, x) ==
    LET n == Len(s)
        pos == IF i < 0 THEN (IF n + i < 0 THEN 0 ELSE n + i)
               ELSE (IF i > n THEN n ELSE i)
    IN SubSeq(s, 1, pos) \o <<x>> \o SubSeq(s, pos + 1, n)

\* del s[i] / s.pop(i) for 0 <= i < len(s)
list_del(s, i) == SubSeq(s, 1, i) \o SubSeq(s, i + 2, Len(s))

\* the source _parse_cells extracts from a function add_cell wrote: the body
\* lines, the closing "return" included
WithReturn(source) ==
    [ok |-> source.ok, stores |-> source.stores, loads |-> source.loads,
     lit |-> source.lit, tail |-> "return"]

\* MarimoAdapter._parse_cells: one code cell per decorated function
_parse_cells(text) == [k \in 1..Len(text) |-> new_cell("code", text[k])]

\* the call as it is remembered
Op(op, index, to, raised) ==
    [n |-> ares.n + 1, op |-> op, index |-> index, to |-> to,
     raised |-> raised, before |-> cells, disk_before |-> disk]

OutOfRange(index, n) == index < 0 \/ index >= n

AdapterGetCell(index) ==
    /\ ares.n < MaxOps
    /\ ares' = Op("get_cell", Some(index), None,
                  IF OutOfRange(index, Len(cells)) THEN "IndexError" ELSE "none")
    /\ UNCHANGED <<cells, raw, disk>>
    /\ UNCHANGED nonAdapterVars

\* add_cell(source, cell_type, index): JupyterAdapter inserts the new cell
\* with list.insert; MarimoAdapter appends a function to the text and parses
\* the text again, whatever the index.
AdapterAddCell(source, cell_type, index) ==
    /\ ares.n < MaxOps
    /\ ares' = Op("add_cell", index, None, "none")
    /\ IF fmt = "ipynb"
       THEN /\ cells' = list_insert(cells,
                                    IF index = None THEN Len(cells) ELSE index[1],
                                    new_cell(cell_type, source))
            /\ raw' = raw
       ELSE /\ raw' = Append(raw, WithReturn(source))
            /\ cells' = _parse_cells(raw')
    /\ UNCHANGED disk
    /\ UNCHANGED nonAdapterVars

\* update_cell(index, source): only the source attribute is assigned
AdapterUpdateCell(index, source) ==
    /\ ares.n < MaxOps
    /\ IF OutOfRange(index, Len(cells))
       THEN /\ ares' = Op("update_cell", Some(index), None, "IndexError")
            /\ cells' = cells
       ELSE /\ ares' = Op("update_cell", Some(index), None, "none")
            /\ cells' = [cells EXCEPT ![index + 1].source = source]
    /\ UNCHANGED <<raw, disk>>
    /\ UNCHANGED nonAdapterVars

AdapterDeleteCell(index) ==
    /\ ares.n < MaxOps
    /\ IF OutOfRange(index, Len(cells))
       THEN /\ ares' = Op("delete_cell", Some(index), None, "IndexError")
            /\ cells' = cells
       ELSE /\ ares' = Op("delete_cell", Some(index), None, "none")
            /\ cells' = list_del(cells, index)
    /\ UNCHANGED <<raw, disk>>
    /\ UNCHANGED nonAdapterVars

\* JupyterAdapter.move_cell(from_index, to_index): pop, then insert
AdapterMoveCell(from_index, to_index) ==
    /\ ares.n < MaxOps
    /\ fmt = "ipynb"
    /\ IF \/ OutOfRange(from_index, Len(cells))
          \/ to_index < 0 \/ to_index > Len(cells)
       THEN /\ ares' = Op("move_cell", Some(from_index), Some(to_index),
                          "IndexError")
            /\ cells' = cells
       ELSE /\ ares' = Op("move_cell", Some(from_index), Some(to_index), "none")
            /\ cells' = list_insert(list_del(cells, from_index), to_index,
                                    cells[from_index + 1])
    /\ UNCHANGED <<raw, disk>>
    /\ UNCHANGED nonAdapterVars

\* save(): JupyterAdapter writes the notebook, MarimoAdapter the text
AdapterSave ==
    /\ ares.n < MaxOps
    /\ ares' = Op("save", None, None, "none")
    /\ disk' = IF fmt = "ipynb" THEN cells ELSE raw
    /\ UNCHANGED <<cells, raw>>
    /\ UNCHANGED nonAdapterVars

\* `dasa move notebook --cell cell --to to`: the notebook is loaded from its
\* file, and after the checks (the user may decline at the warning) the cell
\* is deleted, added again at the adjusted position, and the file is saved.
Move(cell, to, proceed) ==
    /\ ares.n < MaxOps
    /\ fmt = "ipynb"
    /\ LET loaded == disk
           num_cells == Len(loaded)
           call(raised) == [Op("move", Some(cell), Some(to), raised)
                               EXCEPT !.before = loaded]
       IN IF OutOfRange(cell, num_cells) \/ OutOfRange(to, num_cells)
          THEN ares' = call("Exit(1)") /\ cells' = loaded /\ disk' = disk
          ELSE IF cell = to
          THEN ares' = call("same") /\ cells' = loaded /\ disk' = disk
          ELSE IF ~proceed
          THEN ares' = call("Exit(0)") /\ cells' = loaded /\ disk' = disk
          ELSE LET target_cell == loaded[cell + 1]
                   adjusted_to == IF cell > to THEN to ELSE to - 1
               IN /\ ares' = call("none")
                  /\ cells' = list_insert(list_del(loaded, cell), adjusted_to,
                                          new_cell(target_cell.cell_type,
                                                   target_cell.source))
                  /\ disk' = cells'
    /\ UNCHANGED raw
    /\ UNCHANGED nonAdapterVars

(***************************************************************************)
(* Project context (session/context.py).  A Python value is a record of    *)
(* its type and content; a YAML node is a record of its tag and content.   *)
(***************************************************************************)
PyStr(v) == [type |-> "str", v |-> v]
PyTuple(v) == [type |-> "tuple", v |-> v]

ProjectContext(name, goal, status, notebook, constraints, approaches, data) ==
    [name |-> name, goal |-> goal, status |-> status, notebook |-> notebook,
     constraints |-> constraints, approaches |-> approaches, data |-> data]

\* ProjectContext()
EmptyContext == ProjectContext(None, None, None, None, << >>, << >>, << >>)

NoContextCall == [op |-> "none", written |-> None, value |-> None,
                  warned |-> FALSE, raised |-> FALSE]

\* the optional keys of the project mapping
ProjectKeys == {"name", "goal", "status", "notebook"}

\* yaml.dump of one value: the Dumper tags a str as a plain YAML string and
\* a tuple with the Python-specific tag
yaml_dump_value(v) ==
    [tag |-> IF v.type = "tuple" THEN "python/tuple" ELSE "str", v |-> v.v]

\* write: the mapping that is dumped; the project keys whose value is None
\* are removed
to_document(context) ==
    [project |->
        [scalars |-> [k \in {k \in ProjectKeys : context[k] # None} |->
                         context[k][1]],
         constraints |-> context.constraints],
     approaches |-> context.approaches,
     data |-> [k \in 1..Len(context.data) |->
                 <<context.data[k][1], yaml_dump_value(context.data[k][2])>>]]

\* yaml.safe_load raises ConstructorError on a Python-specific tag
safe_load_fails(doc) ==
    \E k \in 1..Len(doc.data) : doc.data[k][2].tag = "python/tuple"

\* read: the ProjectContext built from the loaded mapping; project.get(k)
\* is None for a missing key
from_document_no_data(doc) ==
    ProjectContext(None, None, None, None, doc.project.constraints,
                   doc.approaches, << >>)
from_document(doc) ==
    LET get(k) == IF k \in DOMAIN doc.project.scalars
                  THEN Some(doc.project.scalars[k]) ELSE None
    IN ProjectContext(get("name"), get("goal"), get("status"), get("notebook"),
                      doc.project.constraints, doc.approaches,
                      [k \in 1..Len(doc.data) |->
                          <<doc.data[k][1], PyStr(doc.data[k][2].v)>>])

\* ContextManager.read(): the context and whether the warning was printed
read(f) ==
    IF f = None THEN [value |-> EmptyContext, warned |-> FALSE]
    ELSE IF safe_load_fails(f[1]) THEN [value |-> EmptyContext, warned |-> TRUE]
    ELSE [value |-> from_document(f[1]), warned |-> FALSE]

\* ContextManager.write(context); when the dump or the rename fails the
\* exception leaves the file as it was
ContextWrite(context, ok) ==
    /\ ctxFile' = IF ok THEN Some(to_document(context)) ELSE ctxFile
    /\ cres' = [op |-> "write",
                written |-> IF ok THEN Some(context) ELSE cres.written,
                value |-> None, warned |-> FALSE, raised |-> ~ok]
    /\ UNCHANGED <<logFile, lres>>
    /\ UNCHANGED nonStoreVars

ContextRead ==
    /\ cres' = [op |-> "read", written |-> cres.written,
                value |-> Some(read(ctxFile).value),
                warned |-> read(ctxFile).warned, raised |-> FALSE]
    /\ UNCHANGED <<ctxFile, logFile, lres>>
    /\ UNCHANGED nonStoreVars

\* ContextManager.update(goal=goal): read, set the fields given, write
ContextUpdate(goal) ==
    /\ LET r == read(ctxFile)
           context == IF goal = None THEN r.value
                      ELSE [r.value EXCEPT !.goal = goal]
       IN /\ ctxFile' = Some(to_document(context))
          /\ cres' = [op |-> "update", written |-> Some(context),
                      value |-> Some(context), warned |-> r.warned,
                      raised |-> FALSE]
    /\ UNCHANGED <<logFile, lres>>
    /\ UNCHANGED nonStoreVars

(***************************************************************************)
(* Decision log (session/log.py).  A message is the sequence of its text   *)
(* lines; a line of the file is the text it holds and, on the first line   *)
(* of an entry, the source written in front of it.                         *)
(***************************************************************************)
NoLogCall == [op |-> "none", last_n |-> 0, before |-> << >>, value |-> << >>]

\* the lines f.write(entry) adds for entry = "{timestamp} [{source}] {message}\n"
entry_lines(source, message) ==
    [k \in 1..Len(message) |->
        [source |-> IF k = 1 THEN Some(source) ELSE None, text |-> message[k]]]

\* lines[-last_n:], the slice of the list of lines: -0 is 0, so last_n = 0
\* takes the list from its start
last_lines(lines, last_n) ==
    IF last_n = 0 \/ last_n >= Len(lines) THEN lines
    ELSE SubSeq(lines, Len(lines) - last_n + 1, Len(lines))

\* SessionLog.append(source, message)
LogAppend(source, message) ==
    /\ Len(logFile) + Len(message) <= MaxLines
    /\ logFile' = logFile \o entry_lines(source, message)
    /\ lres' = [op |-> "append", last_n |-> 0, before |-> logFile,
                value |-> << >>]
    /\ UNCHANGED <<ctxFile, cres>>
    /\ UNCHANGED nonStoreVars

\* SessionLog.read(last_n): the last lines, each stripped
LogRead(last_n) ==
    /\ lres' = [op |-> "read", last_n |-> last_n, before |-> logFile,
                value |-> last_lines(logFile, last_n)]
    /\ UNCHANGED <<ctxFile, cres, logFile>>
    /\ UNCHANGED nonStoreVars

(***************************************************************************)
(* Two processes in StateTracker.update_cell at once: the load and the     *)
(* save of a call are separate steps, and nothing locks the file between.  *)
(***************************************************************************)
Procs == {"p1", "p2"}

\* update_cell up to and including self._load()
UpdateCellLoad(p, notebook, cell_index, source) ==
    /\ pend[p] = None
    /\ _load_is_dict(stateFile)
    /\ pend' = [pend EXCEPT ![p] = Some([loaded |-> stateFile,
                                         notebook |-> notebook,
                                         cell_index |-> cell_index,
                                         source |-> source])]
    /\ UNCHANGED <<jrec, launcher, runner, canceller>>
    /\ UNCHANGED coreVars
    /\ UNCHANGED extButRaceVars

\* the rest of update_cell: the entry is put into the state that was loaded,
\* the state is saved over the file, and the call returns
UpdateCellSave(p) ==
    /\ pend[p] # None
    /\ LET c == pend[p][1]
       IN /\ stateFile' = update_cell(c.loaded, c.notebook, c.cell_index,
                                      c.source)
          /\ recorded' = recorded
                           \cup {<<_normalize_path(c.notebook), c.cell_index>>}
    /\ pend' = [pend EXCEPT ![p] = None]
    /\ UNCHANGED <<jrec, launcher, runner, canceller>>
    /\ UNCHANGED <<fmt, cells, graph, query, report, res, lastCmd, exit_code,
                   ran, log>>
    /\ UNCHANGED extButRaceVars

(***************************************************************************)
(* One background job: the launcher (cli/run.py _run_async), the runner    *)
(* (cli/async_runner.py run_cells, update_job_status) and cancel           *)
(* (cli/cancel.py) on its record.  A record is its status, its pid and     *)
(* whether it has the results key.                                         *)
(***************************************************************************)
JobRecord(status, pid, results) ==
    [status |-> status, pid |-> pid, results |-> results]

NoRunner == [pc |-> "none", job_data |-> None, sigint |-> FALSE]

\* job_data is written with status "starting" and no pid
LauncherCreate ==
    /\ launcher.pc = "init"
    /\ jrec' = Some(JobRecord("starting", None, FALSE))
    /\ launcher' = [pc |-> "created", job_data |-> jrec']
    /\ UNCHANGED <<pend, runner, canceller>>
    /\ UNCHANGED coreVars
    /\ UNCHANGED extButRaceVars

\* subprocess.Popen starts the runner
LauncherPopen ==
    /\ launcher.pc = "created"
    /\ launcher' = [launcher EXCEPT !.pc = "spawned"]
    /\ runner' = [runner EXCEPT !.pc = "started"]
    /\ UNCHANGED <<pend, jrec, canceller>>
    /\ UNCHANGED coreVars
    /\ UNCHANGED extButRaceVars

\* job_data gets the pid and status "running" and is written over the file
LauncherWriteRunning ==
    /\ launcher.pc = "spawned"
    /\ jrec' = Some([launcher.job_data[1] EXCEPT !.pid = Some("pid"),
                                                 !.status = "running"])
    /\ launcher' = [pc |-> "done", job_data |-> jrec']
    /\ UNCHANGED <<pend, runner, canceller>>
    /\ UNCHANGED coreVars
    /\ UNCHANGED extButRaceVars

\* the runner is between Popen and exit
RunnerAlive == runner.pc \notin {"none", "exited"}

\* kernel.start() returns or raises
RunnerKernelStart(ok) ==
    /\ runner.pc = "started" /\ ~runner.sigint
    /\ runner' = [runner EXCEPT !.pc = IF ok THEN "upd_running"
                                       ELSE "upd_failed"]
    /\ UNCHANGED <<pend, jrec, launcher, canceller>>
    /\ UNCHANGED coreVars
    /\ UNCHANGED extButRaceVars

\* the positions of the runner inside update_job_status, and the updates
\* passed there
UpdatePcs == {"upd_running", "upd_progress", "upd_completed", "upd_failed"}

apply_updates(pc, job_data) ==
    IF pc = "upd_running" THEN [job_data EXCEPT !.status = "running"]
    ELSE IF pc = "upd_completed"
    THEN [job_data EXCEPT !.status = "completed", !.results = TRUE]
    ELSE IF pc = "upd_failed"
    THEN [job_data EXCEPT !.status = "failed", !.results = TRUE]
    ELSE job_data

\* update_job_status: job_data = json.loads(job_file.read_text())
RunnerRead ==
    /\ runner.pc \in UpdatePcs /\ runner.job_data = None /\ ~runner.sigint
    /\ jrec # None
    /\ runner' = [runner EXCEPT !.job_data = jrec]
    /\ UNCHANGED <<pend, jrec, launcher, canceller>>
    /\ UNCHANGED coreVars
    /\ UNCHANGED extButRaceVars

\* update_job_status: job_data.update(updates); job_file.write_text(...)
RunnerWrite ==
    /\ runner.pc \in UpdatePcs /\ runner.job_data # None
    /\ jrec' = Some(apply_updates(runner.pc, runner.job_data[1]))
    /\ runner' = [runner EXCEPT
                     !.job_data = None,
                     !.pc = IF runner.pc = "upd_running" THEN "upd_progress"
                            ELSE IF runner.pc = "upd_progress" THEN "execute"
                            ELSE "exited"]
    /\ UNCHANGED <<pend, launcher, canceller>>
    /\ UNCHANGED coreVars
    /\ UNCHANGED extButRaceVars

\* the loop body after the progress update: kernel.execute returns a result
\* (the cell may have failed) or an exception leaves the loop
RunnerExecute(ok) ==
    /\ runner.pc = "execute" /\ ~runner.sigint
    /\ runner' = [runner EXCEPT !.pc = IF ok THEN "upd_completed"
                                       ELSE "upd_failed"]
    /\ UNCHANGED <<pend, jrec, launcher, canceller>>
    /\ UNCHANGED coreVars
    /\ UNCHANGED extButRaceVars

\* SIGINT raises KeyboardInterrupt in the runner: `except Exception` does
\* not catch it, the finally clause runs and the process ends
RunnerInterrupted ==
    /\ RunnerAlive /\ runner.sigint
    /\ runner' = [runner EXCEPT !.pc = "exited", !.job_data = None]
    /\ UNCHANGED <<pend, jrec, launcher, canceller>>
    /\ UNCHANGED coreVars
    /\ UNCHANGED extButRaceVars

\* cancel up to the check of status and pid
CancelRead ==
    /\ canceller.pc = "init"
    /\ canceller' =
          IF jrec = None \/ jrec[1].status # "running" \/ jrec[1].pid = None
          THEN [pc |-> "done", job_data |-> jrec]
          ELSE [pc |-> "read", job_data |-> jrec]
    /\ UNCHANGED <<pend, jrec, launcher, runner>>
    /\ UNCHANGED coreVars
    /\ UNCHANGED extButRaceVars

\* os.kill(pid, signal.SIGINT): delivered, or ProcessLookupError
CancelKill ==
    /\ canceller.pc = "read"
    /\ canceller' = [canceller EXCEPT !.pc = "killed"]
    /\ runner' = IF RunnerAlive THEN [runner EXCEPT !.sigint = TRUE] ELSE runner
    /\ UNCHANGED <<pend, jrec, launcher>>
    /\ UNCHANGED coreVars
    /\ UNCHANGED extButRaceVars

\* job_data["status"] = "cancelled"; job_file.write_text(...), in the try
\* block and in the ProcessLookupError branch alike
CancelWrite ==
    /\ canceller.pc = "killed"
    /\ jrec' = Some([canceller.job_data[1] EXCEPT !.status = "cancelled"])
    /\ canceller' = [canceller EXCEPT !.pc = "done"]
    /\ UNCHANGED <<pend, launcher, runner>>
    /\ UNCHANGED coreVars
    /\ UNCHANGED extButRaceVars

(***************************************************************************)
(* Notebooks drawn as inputs                                               *)
(***************************************************************************)
Counts == {None} \cup {Some(k) : k \in 1..MaxCount}

CellChoices(sources, counts, markdown) ==
    {NewCell("code", s, c) : s \in sources, c \in counts}
      \cup (IF markdown THEN {NewCell("markdown", SrcNote, None)} ELSE {})

Notebooks(n, choices) == UNION {[1..k -> choices] : k \in 0..n}

InitCoreOutputs ==
    /\ graph = NoGraph /\ query = NoQuery /\ report = NoReport /\ res = NoRes
    /\ lastCmd = "none" /\ exit_code = 0 /\ ran = {} /\ log = << >>

InitRead == rd = NoRead

InitFile ==
    /\ target = "none" /\ file = Absent /\ tmps = 0
    /\ wpc = "idle" /\ wcall = NoCall /\ seen = NoSeen

InitKernel ==
    /\ proc = "none" /\ mgr = [_km |-> FALSE, _kc |-> FALSE]
    /\ published = << >> /\ rdpos = 0 /\ busy = << >>
    /\ ex = NoExecute /\ xres = NoResult /\ subs = << >> /\ interrupts = 0

InitSession == cmd = NoCmd

InitJob == jobs = << >> /\ live = {} /\ jres = NoJobCall

InitAdapter == raw = << >> /\ disk = << >> /\ ares = NoOp

InitRace ==
    /\ pend = [p \in Procs |-> None]
    /\ jrec = None
    /\ launcher = [pc |-> "init", job_data |-> None]
    /\ runner = NoRunner
    /\ canceller = [pc |-> "init", job_data |-> None]

InitFixCall == fixed = NoFix

InitStore ==
    ctxFile = None /\ cres = NoContextCall /\ logFile = << >> /\ lres = NoLogCall

InitExt ==
    /\ InitRead /\ InitFile /\ InitKernel /\ InitSession /\ InitJob
    /\ InitAdapter /\ InitStore /\ InitRace /\ InitFixCall

InitOutputs == InitCoreOutputs /\ InitExt

(***************************************************************************)
(* SpecDeps: the dependency graph and the static part of the state         *)
(* analysis, applied to every notebook of up to MaxCells cells.            *)
(***************************************************************************)
InitDeps ==
    /\ fmt = "ipynb"
    /\ cells \in Notebooks(MaxCells, CellChoices(DepSources, {None}, TRUE))
    /\ stateFile = MissingFile /\ recorded = {}
    /\ InitOutputs

NextDeps ==
    \/ BuildGraph
    \/ \E c \in 0..Len(cells) : GetUpstream(c)
    \/ \E c \in 0..Len(cells) : GetDownstream(c)
    \/ Analyze(None, FALSE)

SpecDeps == InitDeps /\ [][NextDeps]_vars

(***************************************************************************)
(* SpecJournal: the journal operations on one state file.                  *)
(***************************************************************************)
InitJournal ==
    /\ fmt = "ipynb" /\ cells = << >>
    /\ stateFile = MissingFile /\ recorded = {}
    /\ InitOutputs

NextJournal ==
    \/ \E a \in JournalArgs, s \in JournalSources : UpdateCell(a[1], a[2], s)
    \/ \E a \in JournalArgs, s \in JournalSources : IsStale(a[1], a[2], s)
    \/ \E a \in JournalArgs : WasExecuted(a[1], a[2])
    \/ \E a \in JournalArgs, s \in JournalSources :
          WasExecutedCurrent(a[1], a[2], s)
    \/ DamageStateFile

SpecJournal == InitJournal /\ [][NextJournal]_vars

(***************************************************************************)
(* SpecReads: the journal reads as calls, on a state file that is filled   *)
(* by update_cell and deleted, damaged or overwritten from outside.        *)
(***************************************************************************)
\* the (idx, source) lists given to get_stale_cells
StaleCellLists ==
    UNION {[1..n -> (0..MaxIndex) \X JournalSources] : n \in 0..MaxStaleCells}

NextReads ==
    \/ \E i \in 0..MaxIndex, s \in JournalSources : UpdateCell(NbPath, i, s)
    \/ DamageStateFile
    \/ DeleteStateFile
    \/ ForeignStateFile
    \/ \E i \in 0..MaxIndex, s \in JournalSources : ReadIsStale(NbPath, i, s)
    \/ \E i \in 0..MaxIndex : ReadWasExecuted(NbPath, i)
    \/ \E i \in 0..MaxIndex, s \in JournalSources :
          ReadWasExecutedCurrent(NbPath, i, s)
    \/ \E cs \in StaleCellLists : ReadGetStaleCells(NbPath, cs)

SpecReads == InitJournal /\ [][NextReads]_vars

(***************************************************************************)
(* SpecFiles: the calls of one persistence writer, with failures at every  *)
(* step and a concurrent reader of its destination.                        *)
(***************************************************************************)
InitFiles ==
    /\ fmt = "ipynb" /\ cells = << >>
    /\ stateFile = MissingFile /\ recorded = {}
    /\ InitCoreOutputs /\ InitRead /\ InitKernel /\ InitSession /\ InitJob
    /\ InitAdapter /\ InitStore /\ InitRace /\ InitFixCall
    /\ target \in Writers /\ file = Absent /\ tmps = 0
    /\ wpc = "idle" /\ wcall = NoCall /\ seen = NoSeen

NextFiles ==
    \/ WriterCall
    \/ \E ok \in BOOLEAN : WriterMkdir(ok)
    \/ \E ok \in BOOLEAN : WriterMkstemp(ok)
    \/ \E ok \in BOOLEAN : WriterDump(ok)
    \/ \E ok \in BOOLEAN : WriterReplace(ok)
    \/ \E ok \in BOOLEAN : WriterExcept(ok)
    \/ \E ok \in BOOLEAN : WriterOpenDest(ok)
    \/ \E ok \in BOOLEAN : WriterDumpDest(ok)
    \/ ReadDest

SpecFiles == InitFiles /\ [][NextFiles]_vars

(***************************************************************************)
(* SpecExecute: execute calls on one started interpreter session.          *)
(***************************************************************************)
InitExecute ==
    /\ fmt = "ipynb" /\ cells = << >>
    /\ stateFile = MissingFile /\ recorded = {}
    /\ InitCoreOutputs /\ InitRead /\ InitFile /\ InitSession /\ InitJob
    /\ InitAdapter /\ InitStore /\ InitRace /\ InitFixCall
    /\ proc = "alive" /\ mgr = [_km |-> TRUE, _kc |-> TRUE]
    /\ published = << >> /\ rdpos = 0 /\ busy = << >>
    /\ ex = NoExecute /\ xres = NoResult /\ subs = << >> /\ interrupts = 0

NextExecute ==
    \/ \E timeout \in Timeouts : Execute(SrcPrX, timeout)
    \/ \E kind \in MsgKinds : KernelPublish(kind)
    \/ ExecuteGetMsg
    \/ ExecuteTick
    \/ ExecuteTimeout

SpecExecute == InitExecute /\ [][NextExecute]_vars

(***************************************************************************)
(* SpecSession: one command that owns an interpreter session, on a         *)
(* notebook with execution counters and a journal.                         *)
(***************************************************************************)
InitSessionSpec ==
    /\ fmt = "ipynb"
    /\ cells \in Notebooks(MaxNbCells, CellChoices({SrcX1}, Counts, TRUE))
    /\ stateFile = MissingFile /\ recorded = {}
    /\ InitOutputs

\* the selections of the MCP run tool: cell, all, or neither
McpSelectors(n) == {sel \in Selectors(n) :
                      sel.from_cell = None /\ sel.to_cell = None /\ ~sel.stale}

NextSession ==
    \/ \E sel \in Selectors(Len(cells)) : CmdBegin("run", sel)
    \/ \E sel \in McpSelectors(Len(cells)) : CmdBegin("mcp_run", sel)
    \/ \E ok \in BOOLEAN : KernelStartKernel(ok)
    \/ \E ok \in BOOLEAN : KernelWaitReady(ok)
    \/ CmdSelect
    \/ \E outcome \in {"ok", "error", "name_error", "timeout", "interrupt"} :
          CmdExecute(outcome)
    \/ CmdUnhandledError
    \/ CmdLoopEnd
    \/ CmdFinally
    \/ \E i \in 0..(Len(cells) - 1) :
          cmd.pc = "none" /\ UpdateCell(NbPath, i, cells[i + 1].source)

SpecSession == InitSessionSpec /\ [][NextSession]_vars

(***************************************************************************)
(* SpecJobs: the job records under JobManager calls while processes come   *)
(* and go.                                                                 *)
(***************************************************************************)
InitJobs ==
    /\ fmt = "ipynb" /\ cells = << >>
    /\ stateFile = MissingFile /\ recorded = {}
    /\ InitOutputs

NextJobs ==
    \/ CreateJob
    \/ \E job_id \in 1..MaxJobs, pid \in Pids : StartProcess(job_id, pid)
    \/ \E job_id \in 1..MaxJobs, status \in EndStatuses :
          UpdateJob(job_id, status)
    \/ \E job_id \in 1..MaxJobs : GetJob(job_id)
    \/ \E job_id \in 1..MaxJobs : IsRunning(job_id)
    \/ \E status \in {None} \cup {Some(st) : st \in {"running"} \cup EndStatuses} :
          ListJobs(status)
    \/ \E pid \in Pids : ProcessExit(pid)

SpecJobs == InitJobs /\ [][NextJobs]_vars

(***************************************************************************)
(* SpecAdapter: the operations on a loaded notebook, .ipynb or reactive    *)
(* script, and the move command.                                           *)
(***************************************************************************)
\* cells as they are stored in an .ipynb file
StoredCells ==
    {[new_cell("code", src) EXCEPT !.execution_count = cnt,
                                   !.outputs = IF cnt = None THEN << >>
                                               ELSE <<"out">>] :
        src \in {SrcX1}, cnt \in {None, Some(1)}}
    \cup {new_cell("markdown", SrcNote)}

InitAdapterSpec ==
    /\ fmt \in {"ipynb", "py"}
    /\ \E n \in 0..MaxNbCells :
         IF fmt = "ipynb"
         THEN /\ cells \in [1..n -> StoredCells]
              /\ raw = << >>
              /\ disk = cells
         ELSE /\ raw \in [1..n -> {SrcX1, SrcPrX}]
              /\ cells = _parse_cells(raw)
              /\ disk = raw
    /\ ares = NoOp
    /\ stateFile = MissingFile /\ recorded = {}
    /\ InitCoreOutputs /\ InitRead /\ InitFile /\ InitKernel /\ InitSession
    /\ InitJob /\ InitStore /\ InitRace /\ InitFixCall

NextAdapter ==
    \/ \E index \in -1..(MaxNbCells + 1) : AdapterGetCell(index)
    \/ \E index \in {None} \cup {Some(i) : i \in -1..(MaxNbCells + 1)},
          cell_type \in {"code", "markdown"} :
          AdapterAddCell(SrcX999, cell_type, index)
    \/ \E index \in -1..(MaxNbCells + 1) : AdapterUpdateCell(index, SrcX999)
    \/ \E index \in -1..(MaxNbCells + 1) : AdapterDeleteCell(index)
    \/ \E from_index, to_index \in -1..(MaxNbCells + 1) :
          AdapterMoveCell(from_index, to_index)
    \/ AdapterSave
    \/ \E cell, to \in -1..(MaxNbCells + 1), proceed \in BOOLEAN :
          Move(cell, to, proceed)

SpecAdapter == InitAdapterSpec /\ [][NextAdapter]_vars

(***************************************************************************)
(* SpecContext: writes, reads and updates of the project context.          *)
(***************************************************************************)
\* the contexts handed to write
Contexts ==
    {ProjectContext(name, goal, None, None, constraints, approaches, data) :
        name \in {None, Some("a"), Some("")},
        goal \in {None, Some("g")},
        constraints \in {<< >>, <<"c">>},
        approaches \in {<< >>, <<[name |-> "n", status |-> "current"]>>},
        data \in {<< >>, <<<<"k", PyStr("v")>>>>, <<<<"shape", PyTuple("t")>>>>}}

InitContext ==
    /\ fmt = "ipynb" /\ cells = << >>
    /\ stateFile = MissingFile /\ recorded = {}
    /\ InitOutputs

NextContext ==
    \/ \E context \in Contexts, ok \in BOOLEAN : ContextWrite(context, ok)
    \/ ContextRead
    \/ \E goal \in {None, Some("g2")} : ContextUpdate(goal)

SpecContext == InitContext /\ [][NextContext]_vars

(***************************************************************************)
(* SpecLog: appends to and reads of the decision log.                      *)
(***************************************************************************)
NextLog ==
    \/ \E source \in {"check", "agent"},
          message \in {<<"m">>, <<"m2">>, <<"a", "b">>} :
          LogAppend(source, message)
    \/ \E last_n \in 0..(MaxLines + 1) : LogRead(last_n)

SpecLog == InitContext /\ [][NextLog]_vars

(***************************************************************************)
(* SpecJournalRace: update_cell calls of two processes on one journal.     *)
(***************************************************************************)
NextJournalRace ==
    \/ \E p \in Procs, cell_index \in 0..MaxIndex, s \in JournalSources :
          UpdateCellLoad(p, NbPath, cell_index, s)
    \/ \E p \in Procs : UpdateCellSave(p)

SpecJournalRace == InitJournal /\ [][NextJournalRace]_vars

(***************************************************************************)
(* SpecJobRace: launcher, runner and cancel on one job record.             *)
(***************************************************************************)
NextJobRace ==
    \/ LauncherCreate
    \/ LauncherPopen
    \/ LauncherWriteRunning
    \/ \E ok \in BOOLEAN : RunnerKernelStart(ok)
    \/ RunnerRead
    \/ RunnerWrite
    \/ \E ok \in BOOLEAN : RunnerExecute(ok)
    \/ RunnerInterrupted
    \/ CancelRead
    \/ CancelKill
    \/ CancelWrite

SpecJobRace == InitJournal /\ [][NextJobRace]_vars

(***************************************************************************)
(* SpecState: the state analysis of Jupyter and Marimo notebooks with      *)
(* execution counters, against a journal that update_cell fills.           *)
(***************************************************************************)
InitState ==
    /\ \/ /\ fmt = "ipynb"
          /\ cells \in Notebooks(MaxNbCells, CellChoices({SrcX1}, Counts, TRUE))
       \/ /\ fmt = "py"
          /\ cells \in Notebooks(MaxNbCells, CellChoices({SrcX1}, {None}, FALSE))
    /\ stateFile = MissingFile /\ recorded = {}
    /\ InitOutputs

NextState ==
    \/ \E i \in 0..MaxIndex, s \in JournalSources : UpdateCell(NbPath, i, s)
    \/ \E np \in {None, Some(NbPath), Some(NbPathDot)}, t \in BOOLEAN :
          Analyze(np, t)
    \/ DamageStateFile

SpecState == InitState /\ [][NextState]_vars

(***************************************************************************)
(* SpecCmd: the commands run, edit and check on one notebook.              *)
(***************************************************************************)
InitCmd ==
    /\ \/ /\ fmt = "ipynb"
          /\ cells \in Notebooks(MaxCmdCells, CellChoices(NbSources, {None}, TRUE))
       \/ /\ fmt = "py"
          /\ cells \in Notebooks(MaxCmdCells, CellChoices(NbSources, {None}, FALSE))
    /\ stateFile = MissingFile /\ recorded = {}
    /\ InitOutputs

NextCmd ==
    \/ \E sel \in Selectors(Len(cells)) : Run(sel)
    \/ \E i \in 0..Len(cells), code \in NbSources \cup {SrcBad} : Edit(i, code)
    \/ \E c \in {None} \cup {Some(i) : i \in 0..Len(cells)},
          format \in {"text", "json"} : Check(c, format)

SpecCmd == InitCmd /\ [][NextCmd]_vars

(***************************************************************************)
(* SpecFix: `check --fix` and `edit` on one notebook whose cells have or   *)
(* lack an execution count, starting without a journal.                    *)
(***************************************************************************)
InitFix ==
    /\ \/ /\ fmt = "ipynb"
          /\ cells \in Notebooks(MaxNbCells,
                                 CellChoices(JournalSources, Counts, TRUE))
       \/ /\ fmt = "py"
          /\ cells \in Notebooks(MaxNbCells,
                                 CellChoices(JournalSources, {None}, FALSE))
    /\ stateFile = MissingFile /\ recorded = {}
    /\ InitOutputs

NextFix ==
    \/ \E format \in {"text", "json"}, started \in BOOLEAN,
          okIdx \in SUBSET (0..MaxNbCells) : CheckFix(format, started, okIdx)
    \/ \E i \in 0..Len(cells), code \in JournalSources : Edit(i, code)

SpecFix == InitFix /\ [][NextFix]_vars

(***************************************************************************)
(* Vocabulary of the properties, read off the notebook itself              *)
(***************************************************************************)
Names == UNION {src.stores \cup src.loads : src \in AllSources}

CodeIdx == {i \in 0..(Len(cells) - 1) : Cells(fmt, cells)[i + 1].cell_type = "code"}
Defs(i) == parse_cell(cells[i + 1].source).definitions
Refs(i) == parse_cell(cells[i + 1].source).references

\* the code cells before c, in source order, that define r
EarlierDefiners(c, r) == {u \in CodeIdx : u < c /\ r \in Defs(u)}

Max(S) == CHOOSE a \in S : \A b \in S : b <= a

\* the last earlier definer of each reference of c that has one
LastDefiners(c) ==
    {Max(EarlierDefiners(c, r)) : r \in {r \in Refs(c) : EarlierDefiners(c, r) # {}}}

\* u -> d is a stored edge: u is in upstream(d) or d is in downstream(u)
StoredEdges(g) ==
    {e \in (0..MaxCells + 1) \X (0..MaxCells + 1) :
        \/ e[2] \in DOMAIN g /\ e[1] \in g[e[2]].upstream
        \/ e[1] \in DOMAIN g /\ e[2] \in g[e[1]].downstream}

\* pairs joined by a path of one or more edges of E, of at most n + 1 edges
RECURSIVE Paths(_, _)
Paths(E, n) ==
    IF n = 0 THEN E
    ELSE LET P == Paths(E, n - 1)
         IN P \cup {<<ab[1][1], ab[2][2]>> : ab \in {ab \in P \X E : ab[1][2] = ab[2][1]}}

Ascending(s) == \A k \in 1..Len(s) : \A l \in 1..Len(s) : k < l => s[k] < s[l]

(***************************************************************************)
(* C1 - C3, C8: dependency graph and undefined references (SpecDeps)       *)
(***************************************************************************)
\* C1 as stated: for every code cell c and reference r of c, if some earlier
\* code cell defines r then exactly one earlier definer of r is in
\* upstream(c), namely the last one; a reference without earlier definer
\* adds no edge.
C1_ExactlyOneDefiner ==
    graph.built =>
        \A c \in CodeIdx :
            /\ \A r \in Refs(c) :
                  EarlierDefiners(c, r) # {} =>
                      EarlierDefiners(c, r) \cap graph.nodes[c].upstream
                          = {Max(EarlierDefiners(c, r))}
            /\ graph.nodes[c].upstream
                  \subseteq UNION {EarlierDefiners(c, r) : r \in Refs(c)}

\* C1 amended: for every code cell c and reference r of c with an earlier
\* definer, the last earlier definer of r is in upstream(c); upstream(c)
\* holds nothing but these last definers, so a reference without earlier
\* definer adds no edge.  (An earlier, non-last definer of r can be in
\* upstream(c) as the last definer of another reference of c.)
C1_LastDefiner ==
    graph.built =>
        \A c \in CodeIdx :
            /\ \A r \in Refs(c) :
                  EarlierDefiners(c, r) # {} =>
                      Max(EarlierDefiners(c, r)) \in graph.nodes[c].upstream
            /\ graph.nodes[c].upstream = LastDefiners(c)

\* C1 witness: a built graph where a reference has two earlier definers and
\* both are upstream of the reading cell.
C1_Witness ==
    /\ graph.built
    /\ \E c \in CodeIdx : \E r \in Refs(c) :
          Cardinality(EarlierDefiners(c, r) \cap graph.nodes[c].upstream) = 2

\* C2: the graph is acyclic and every direct edge points backward in source
\* order: u in upstream(c) implies u < c (and d in downstream(c) implies
\* c < d).
C2_Backward ==
    graph.built =>
        /\ \A c \in DOMAIN graph.nodes :
              /\ \A u \in graph.nodes[c].upstream : u < c
              /\ \A d \in graph.nodes[c].downstream : c < d
        /\ \A pr \in Paths(StoredEdges(graph.nodes),
                           Cardinality(StoredEdges(graph.nodes))) : pr[1] # pr[2]

\* C2 witness: a built graph with a cell that has both an upstream and a
\* downstream cell.
C2_Witness ==
    /\ graph.built
    /\ \E c \in DOMAIN graph.nodes :
          graph.nodes[c].upstream # {} /\ graph.nodes[c].downstream # {}

\* C3: for every cell c, get_upstream(c) is the ascending list, without c,
\* of exactly the cells from which c is reachable over one or more stored
\* edges, get_downstream(c) that of the cells reachable from c, and d is in
\* get_downstream(c) iff c is in get_upstream(d).
C3_Transitive ==
    graph.built =>
        LET g == graph.nodes
            P == Paths(StoredEdges(g), Cardinality(StoredEdges(g)))
        IN /\ \A c \in 0..Len(cells) :
                 /\ Ascending(get_upstream(g, c))
                 /\ Ascending(get_downstream(g, c))
                 /\ Range(get_upstream(g, c)) = {pr[1] : pr \in {q \in P : q[2] = c}} \ {c}
                 /\ Range(get_downstream(g, c)) = {pr[2] : pr \in {q \in P : q[1] = c}} \ {c}
                 /\ \A d \in 0..Len(cells) :
                       d \in Range(get_downstream(g, c))
                           <=> c \in Range(get_upstream(g, d))
           /\ query.op = "get_upstream" =>
                 /\ Ascending(query.result)
                 /\ Range(query.result)
                       = {pr[1] : pr \in {q \in P : q[2] = query.cell}} \ {query.cell}
           /\ query.op = "get_downstream" =>
                 /\ Ascending(query.result)
                 /\ Range(query.result)
                       = {pr[2] : pr \in {q \in P : q[1] = query.cell}} \ {query.cell}

\* C3 witness: get_upstream returned a cell that is upstream only
\* transitively.
C3_Witness ==
    /\ query.op = "get_upstream"
    /\ query.cell \in DOMAIN graph.nodes
    /\ Range(query.result) \ graph.nodes[query.cell].upstream # {}

\* C8: analyze reports an error "uses undefined variable 'r'" on cell c and
\* an undefined_refs entry (c, r), once each, exactly for the code cells c
\* and references r of c that no earlier code cell defines.
C8_UndefinedRefs ==
    report.called =>
        LET an == report.analysis
            Expected == {pr \in CodeIdx \X Names :
                            pr[2] \in Refs(pr[1]) /\ EarlierDefiners(pr[1], pr[2]) = {}}
            Errors == {k \in 1..Len(an.issues) : an.issues[k].severity = "error"}
        IN /\ Range(an.undefined_refs) = Expected
           /\ Len(an.undefined_refs) = Cardinality(Expected)
           /\ {<<an.issues[k].cell_index, an.issues[k].message>> : k \in Errors}
                 = {<<pr[1], MsgUndefined(pr[2])>> : pr \in Expected}
           /\ Cardinality(Errors) = Cardinality(Expected)

\* C8 witness: an analysis that reports one reference as undefined while
\* another reference, defined by an earlier cell, is not reported.
C8_Witness ==
    /\ report.called
    /\ report.analysis.undefined_refs # << >>
    /\ \E c \in CodeIdx : \E r \in Refs(c) :
          EarlierDefiners(c, r) # {}
            /\ <<c, r>> \notin Range(report.analysis.undefined_refs)

(***************************************************************************)
(* C4, C5: journal operations (SpecJournal)                                *)
(***************************************************************************)
\* C4: immediately after update_cell(p, i, s), is_stale(p, i, s) is false
\* and is_stale(p, i, s') is true for every source s' other than s; a cell
\* that was never recorded is stale for every source.
C4_UpdateThenStale ==
    /\ res.op = "update_cell" =>
          /\ ~is_stale(stateFile, res.notebook, res.cell_index, res.source[1])
          /\ \A s2 \in AllSources \ {res.source[1]} :
                is_stale(stateFile, res.notebook, res.cell_index, s2)
    /\ \A p \in RawPaths : \A i \in 0..MaxIndex :
          <<_normalize_path(p), i>> \notin recorded =>
              \A s \in AllSources : is_stale(stateFile, p, i, s)

\* C4 witness: update_cell has just re-recorded a cell with another source,
\* next to an entry of another cell.
C4_Witness ==
    /\ res.op = "update_cell"
    /\ res.source = Some(SrcX999)
    /\ Cardinality(recorded) >= 2
    /\ is_stale(stateFile, res.notebook, res.cell_index, SrcX1)

\* C5: for every journal content, path, index and source,
\* was_executed_current(p, i, s) = was_executed(p, i) /\ ~is_stale(p, i, s),
\* for the values the three reads return and for every argument.
C5_CurrentIsExecutedNotStale ==
    /\ (res.op = "read" /\ res.stale # None /\ res.executed # None
          /\ res.current # None)
          => res.current[1] = (res.executed[1] /\ ~res.stale[1])
    /\ \A p \in RawPaths : \A i \in 0..MaxIndex : \A s \in AllSources :
          was_executed_current(stateFile, p, i, s)
              = (was_executed(stateFile, p, i) /\ ~is_stale(stateFile, p, i, s))

\* C5 witness: the three reads were made on a cell that is recorded with
\* another source: executed, stale, not current.
C5_Witness ==
    /\ res.op = "read"
    /\ res.executed = Some(TRUE) /\ res.stale = Some(TRUE)
    /\ res.current = Some(FALSE)

(***************************************************************************)
(* C7, C10: state analysis (SpecState)                                     *)
(***************************************************************************)
\* the journal file holds an entry for (path, index) whose hash is that of
\* source
HasCurrentEntry(path, index, source) ==
    /\ stateFile.status = "ok"
    /\ _normalize_path(path) \in DOMAIN stateFile.data
    /\ ToString(index) \in DOMAIN stateFile.data[_normalize_path(path)].cells
    /\ stateFile.data[_normalize_path(path)].cells[ToString(index)].code_hash
          = sha256_12(source)

IssuesAt(an, cell_index, message) ==
    {k \in 1..Len(an.issues) :
        an.issues[k] = StateIssue(cell_index, "warning", message)}

OutOfOrder ==
    \E i \in 1..Len(cells) : \E j \in 1..Len(cells) :
        LET a == Cells(fmt, cells)[i]
            b == Cells(fmt, cells)[j]
        IN /\ i < j /\ a.cell_type = "code" /\ b.cell_type = "code"
           /\ a.execution_count # None /\ b.execution_count # None
           /\ a.execution_count[1] > b.execution_count[1]

\* C10: analyze emits exactly one notebook-level warning (cell_index -1,
\* "out-of-order execution detected") iff the executed code cells ordered by
\* ascending execution counter differ from the same cells in source order,
\* and none otherwise.
C10_OutOfOrder ==
    report.called =>
        Cardinality(IssuesAt(report.analysis, -1, MsgOrder))
            = IF OutOfOrder THEN 1 ELSE 0

(***************************************************************************)
(* C6, C9: the commands (SpecCmd)                                          *)
(***************************************************************************)
\* C6: after run has executed cell i successfully and the source of cell i
\* was then edited, check reports the warning "stale - code modified since
\* last run" on cell i.
C6_StaleAfterRunAndEdit ==
    lastCmd = "check" =>
        \A pr \in ran :
            (pr[1] < Len(cells) /\ cells[pr[1] + 1].source # pr[2])
                => IssuesAt(report.analysis, pr[1], MsgStale) # {}

\* C9: without --fix and in every output format, check exits non-success
\* iff the report is inconsistent, and the report is consistent iff it has
\* no error-severity issue.
C9_ExitIffInconsistent ==
    lastCmd = "check" =>
        /\ (exit_code # 0) <=> ~report.analysis.is_consistent
        /\ report.analysis.is_consistent
              <=> \A k \in 1..Len(report.analysis.issues) :
                      report.analysis.issues[k].severity # "error"

(***************************************************************************)
(* C11: journal reads on a missing or undeserializable state file          *)
(* (SpecReads)                                                             *)
(***************************************************************************)
\* C11: a journal read (is_stale, was_executed, was_executed_current,
\* get_stale_cells) made while the state file is missing, is not JSON, or is
\* JSON that is not a journal object, does not raise, answers as on an empty
\* journal, and prints exactly one warning to stderr.
C11_ReadsTolerateBadFile ==
    (rd.op # "none" /\ rd.status \in {"missing", "corrupt", "not_object"})
        => /\ ~rd.outcome.raised
           /\ rd.outcome.value = Some(rd.empty_answer)
           /\ rd.outcome.warnings = 1

(***************************************************************************)
(* C12, C13: persistence writers (SpecFiles)                               *)
(***************************************************************************)
\* an atomic writer's call has ended, normally or by raising
AtomicCallEnded ==
    /\ target \in AtomicWriters
    /\ wpc = "idle" /\ wcall.outcome \in {"returned", "raised"}

\* C12 as stated: after any call of an atomic writer, returned or failed at
\* any step, no temporary sibling file remains and the destination holds its
\* complete previous content or the complete new content.
C12_NoTempAfterAnyCall ==
    AtomicCallEnded =>
        /\ tmps = 0
        /\ file \in {wcall.prev, wcall.new}

\* C12 amended: after any call of an atomic writer the destination holds its
\* complete previous content (the new one iff the call returned), and the
\* call leaves behind no temporary file of its own unless the removal of
\* that file in the except branch itself failed, in which case exactly that
\* one file stays.
C12_NoTempUnlessUnlinkFails ==
    AtomicCallEnded =>
        /\ file = IF wcall.outcome = "returned" THEN wcall.new ELSE wcall.prev
        /\ file.kind # "partial"
        /\ tmps = wcall.tmps_before + (IF wcall.unlink_failed THEN 1 ELSE 0)
        /\ wcall.unlink_failed => wcall.outcome = "raised" /\ wcall.made_tmp

\* C12 witness: a call that had created its temporary file failed, over a
\* destination that held an earlier version; the file is gone and the
\* destination is as before.
C12_Witness ==
    /\ AtomicCallEnded
    /\ wcall.outcome = "raised" /\ wcall.made_tmp /\ ~wcall.unlink_failed
    /\ wcall.prev.kind = "whole" /\ file = wcall.prev
    /\ tmps = 0

\* C13: every write of a persistence file (journal, context, cached profile,
\* job record) goes through a temporary sibling and a rename and never opens
\* the destination, so a concurrent reader reads the whole previous or the
\* whole new content, never a truncated or partial one.
C13_WritesNeverExposePartial ==
    /\ ~wcall.opened_dest
    /\ seen.read => seen.content.kind # "partial"

(***************************************************************************)
(* C15, C17, C18: execute on one session (SpecExecute)                     *)
(***************************************************************************)
\* C15: a call execute(source, timeout) does not go on waiting once the
\* caller's timeout has expired for the submission, whatever messages keep
\* arriving, and after a Timeout result the session is still alive.
C15_ExecuteReturnsWithinTimeout ==
    /\ ex.pc = "waiting" => ex.elapsed <= ex.timeout
    /\ xres.ended = "timeout" => proc = "alive" /\ mgr._kc

\* C17: within one session no source is submitted while an earlier
\* submission of the session has not reached idle, also after the earlier
\* one timed out.
C17_SubmissionsSequential ==
    \A k \in 1..Len(subs) : ~subs[k].overlap

\* the messages the client has taken from iopub
Taken == SubSeq(published, 1, rdpos)

\* the messages taken that carry the correlation id, status messages aside
OwnOf(msg_id) ==
    LET Mine(m) == m.parent = msg_id /\ m.msg_type # "status"
    IN SelectSeq(Taken, Mine)

\* the values of the messages of s that have one of the types, in order
ValsOf(s, types, name) ==
    LET Pick(m) == m.msg_type \in types /\ m.name = name
        t == SelectSeq(s, Pick)
    IN [k \in 1..Len(t) |-> t[k].val]

FirstOf(s) == IF s = << >> THEN None ELSE Some(s[1])
LastOf(s) == IF s = << >> THEN None ELSE Some(s[Len(s)])

\* C18 as stated: the result returned on idle is built only from the
\* messages carrying the submission's correlation id; its display value is
\* the first display value of the submission (execute_result or display_data,
\* whichever came first), its error that of the first error, and success is
\* true iff no error was captured.
C18_FirstDisplayFirstError ==
    xres.ended = "idle" =>
        LET own == OwnOf(xres.msg_id)
        IN /\ xres.stdout = ValsOf(own, {"stream"}, "stdout")
           /\ xres.stderr = ValsOf(own, {"stream"}, "stderr")
           /\ xres.result = FirstOf(ValsOf(own, {"execute_result", "display_data"}, ""))
           /\ xres.error = FirstOf(ValsOf(own, {"error"}, ""))
           /\ xres.success = (ValsOf(own, {"error"}, "") = << >>)

\* C18 amended: the result is built only from the messages carrying the
\* submission's correlation id, and the call returns on idle only at the idle
\* of its own submission; the display value is the data of the submission's
\* last execute_result if it has one, otherwise of its first display_data;
\* the error is that of its last error; success is true iff no error was
\* captured.  A result returned on timeout has the streamed output of the
\* submission so far, no display value, and success false.
C18_LastResultLastError ==
    LET own == OwnOf(xres.msg_id)
        results == ValsOf(own, {"execute_result"}, "")
        displays == ValsOf(own, {"display_data"}, "")
    IN /\ xres.ended \in {"idle", "timeout"} =>
             /\ xres.stdout = ValsOf(own, {"stream"}, "stdout")
             /\ xres.stderr = ValsOf(own, {"stream"}, "stderr")
       /\ xres.ended = "idle" =>
             /\ rdpos > 0 /\ published[rdpos] = Msg(xres.msg_id, "status", "", "idle")
             /\ xres.result = IF results # << >> THEN LastOf(results)
                                                ELSE FirstOf(displays)
             /\ xres.error = LastOf(ValsOf(own, {"error"}, ""))
             /\ xres.success = (ValsOf(own, {"error"}, "") = << >>)
       /\ xres.ended = "timeout" =>
             /\ xres.result = None /\ ~xres.success
             /\ xres.error_type = Some("TimeoutError")

\* C18 witness: the second submission of a session returned on idle with a
\* display value, after the call had skipped a message of the first
\* submission, which had timed out.
C18_Witness ==
    /\ xres.ended = "idle" /\ xres.msg_id = 2
    /\ xres.result # None
    /\ \E k \in 1..rdpos : published[k].parent = 1

(***************************************************************************)
(* C14, C16, C20: commands owning a session (SpecSession)                  *)
(***************************************************************************)
\* C14: when a command that started an interpreter session ends, by any
\* exit path, no kernel subprocess launched by it is still alive.
C14_KernelReleasedOnEveryExit ==
    cmd.pc = "ended" => proc # "alive"

\* C16: when the user's cancellation arrives while execute waits for a
\* submission, interrupt() is called and an ExecutionResult for the
\* interrupted submission is returned; the session is not left executing.
C16_CancelInterruptsAndReturns ==
    /\ cmd.cancelled =>
          /\ interrupts > 0
          /\ xres.ended # "none"
          /\ xres.msg_id = subs[Len(subs)].msg_id
    /\ (cmd.cancelled /\ cmd.pc = "ended") => (busy = << >> \/ proc # "alive")

\* the sources `run` has to replay before its first target: those of the
\* code cells before T = min(targets) that have an execution counter or a
\* current journal entry, in source order
ReplayBefore(T) ==
    LET cc == code_cells(fmt, cells)
        Executed(c) ==
            /\ c.index < T
            /\ \/ c.execution_count # None
               \/ was_executed_current(stateFile, NbPath, c.index, c.source)
        rs == SelectSeq(cc, Executed)
    IN [k \in 1..Len(rs) |-> rs[k].source]

\* C20: when `run` submits its first target cell T = min(targets), the
\* submissions made before it in the session are exactly the executed code
\* cells with index < T, in source order.
C20_ReplayBeforeFirstTarget ==
    (cmd.name = "run" /\ cmd.first_target_at > 0) =>
        LET T == cmd.targets[1].index
            before == SubSeq(subs, 1, cmd.first_target_at - 1)
        IN [k \in 1..Len(before) |-> before[k].source] = ReplayBefore(T)

(***************************************************************************)
(* C19: job records (SpecJobs)                                             *)
(***************************************************************************)
\* C19: a job is created running and its stored status is only ever
\* running, completed or failed; and a read of a job whose stored status is
\* running while its OS process no longer exists reports the job as failed
\* and leaves failed as the stored status.
C19_DeadRunningJobReadAsFailed ==
    /\ \A j \in 1..Len(jobs) : jobs[j].status \in {"running"} \cup EndStatuses
    /\ jres.op = "create_job" => jres.value[1].status = "running"
    /\ (/\ jres.op = "get_job"
        /\ jres.stored_before = Some("running")
        /\ jres.process_gone)
       => /\ jres.value[1].status = "failed"
          /\ jobs[jres.job_id].status = "failed"

(***************************************************************************)
(* C21: the results and the exit status of `run` (SpecSession)             *)
(***************************************************************************)
\* C21: when `run` has gone through its selection, it has produced exactly
\* one result per selected cell, in source order, failed and timed-out cells
\* included, and its exit status is non-zero iff at least one executed cell
\* failed.
C21_OneResultPerCellExitIffFailed ==
    (cmd.name = "run" /\ cmd.pc = "ended" /\ cmd.how = "returned") =>
        /\ [k \in 1..Len(cmd.results) |-> cmd.results[k].cell]
             = [k \in 1..Len(cmd.targets) |-> cmd.targets[k].index]
        /\ (cmd.exit # Some(0)) <=>
             (\E k \in 1..Len(cmd.results) : ~cmd.results[k].success)

(***************************************************************************)
(* C22..C25: notebook operations (SpecAdapter)                             *)
(***************************************************************************)
\* the last operation was given a cell index outside the valid range: for
\* get, update, delete and the source of a move the cells 0..N-1, for the
\* target of a move the positions 0..N-1, for an insert the positions 0..N
IndexOutside ==
    LET n == Len(ares.before)
    IN \/ /\ ares.op \in {"get_cell", "update_cell", "delete_cell"}
          /\ OutOfRange(ares.index[1], n)
       \/ /\ ares.op = "add_cell" /\ ares.index # None
          /\ (ares.index[1] < 0 \/ ares.index[1] > n)
       \/ /\ ares.op = "move_cell"
          /\ (OutOfRange(ares.index[1], n) \/ OutOfRange(ares.to[1], n))

\* C22: a JupyterAdapter operation that takes a cell index and is called
\* with an index outside the valid range fails with IndexError and leaves
\* the cell sequence as it was.
C22_OutOfRangeFailsUnchanged ==
    (fmt = "ipynb" /\ IndexOutside) =>
        (ares.raised = "IndexError" /\ cells = ares.before)

\* the last operation moved a cell to another position
Moved ==
    /\ fmt = "ipynb" /\ ares.op \in {"move", "move_cell"}
    /\ ares.raised = "none"
    /\ ~OutOfRange(ares.to[1], Len(ares.before))
    /\ ares.index # ares.to

\* C23: after an update of the source of cell i, cell i has no execution
\* counter and every other cell is as it was; after a move of cell i the
\* moved cell has no execution counter and the other cells are as they were.
C23_MutationClearsOnlyThatCounter ==
    /\ (fmt = "ipynb" /\ ares.op = "update_cell" /\ ares.raised = "none") =>
          /\ cells[ares.index[1] + 1].execution_count = None
          /\ \A j \in 1..Len(cells) :
                j # ares.index[1] + 1 => cells[j] = ares.before[j]
    /\ Moved =>
          /\ \E j \in 1..Len(cells) :
                /\ cells[j].source = ares.before[ares.index[1] + 1].source
                /\ cells[j].execution_count = None
                /\ list_del(cells, j - 1)
                     = list_del(ares.before, ares.index[1])

\* C24: on a reactive-script notebook add, update, delete and save fail with
\* a read-only error and change neither the cells in memory nor the file.
C24_ReactiveNotebookReadOnly ==
    (fmt = "py" /\ ares.op \in {"add_cell", "update_cell", "delete_cell", "save"}
        /\ ~(ares.op \in {"update_cell", "delete_cell"}
             /\ OutOfRange(ares.index[1], Len(ares.before)))) =>
        /\ ares.raised = "ReadOnlyNotebook"
        /\ cells = ares.before
        /\ disk = ares.disk_before

\* C25: after cell `from` was moved to position `to` (both valid, different)
\* the notebook has as many cells as before, the moved cell is at index
\* `to`, and the other cells keep their relative order.
C25_MovedCellAtTo ==
    Moved =>
        /\ Len(cells) = Len(ares.before)
        /\ cells[ares.to[1] + 1].source = ares.before[ares.index[1] + 1].source
        /\ cells[ares.to[1] + 1].cell_type
             = ares.before[ares.index[1] + 1].cell_type
        /\ list_del(cells, ares.to[1]) = list_del(ares.before, ares.index[1])

(***************************************************************************)
(* C26: the context round trip (SpecContext)                               *)
(***************************************************************************)
\* a ProjectContext of the kind the project memory holds: strings, lists of
\* strings and records of strings, no value of a Python-only type
ValidContext(context) ==
    \A k \in 1..Len(context.data) : context.data[k][2].type = "str"

C27_AppendOnlyAndLastN ==
    /\ lres.op = "append" =>
          /\ Len(logFile) = Len(lres.before) + 1
          /\ SubSeq(logFile, 1, Len(lres.before)) = lres.before
    /\ lres.op = "read" =>
          LET total == Len(logFile)
              m == IF lres.last_n < total THEN lres.last_n ELSE total
          IN lres.value = SubSeq(logFile, total - m + 1, total)

(***************************************************************************)
(* C28: concurrent journal updates (SpecJournalRace)                       *)
(***************************************************************************)
\* C28: once update_cell(p, i, s) has returned, was_executed(p, i) is true
\* after any later update_cell calls, those of another process whose load
\* and save overlap with this call included.
C28_EntriesNeverLost ==
    \A pr \in recorded : was_executed(stateFile, pr[1], pr[2])

(***************************************************************************)
(* C29: the status of a job record (SpecJobRace)                           *)
(***************************************************************************)
StatusRank(status) ==
    IF status = "starting" THEN 0 ELSE IF status = "running" THEN 1 ELSE 2

\* C29: under every interleaving of launcher, runner and cancel, each write
\* of the job record moves its status forward along starting -> running ->
\* {completed, failed, cancelled}; once the record holds completed, failed
\* or cancelled no write changes the status or drops the results.
C29_StatusOnlyForward ==
    [][jrec # None =>
         /\ jrec' # None
         /\ StatusRank(jrec'[1].status) >= StatusRank(jrec[1].status)
         /\ StatusRank(jrec[1].status) = 2 =>
               /\ jrec'[1].status = jrec[1].status
               /\ jrec[1].results => jrec'[1].results]_vars

(***************************************************************************)
(* C30.  Auto-repair converges: when `check --fix` has finished with every *)
(* repair target succeeding and the notebook has not been changed since,   *)
(* no code cell is a repair target any more (never executed, or stale), so *)
(* a `check --fix` made now finds nothing to fix.                          *)
(***************************************************************************)
FixSucceeded ==
    /\ lastCmd = "check --fix" /\ fixed.called /\ fixed.started
    /\ \A k \in 1..Len(fixed.results) : fixed.results[k].success

C30_AutoRepairConverges ==
    FixSucceeded => cells_to_fix(fmt, cells, stateFile, NbPath) = << >>

====
